---- MODULE Spec2Model ----
(***************************************************************************)
(* FlashPoint: matchmaking / session directory and turn synchronizer of    *)
(* the backend (src/backend/src/index.js), the channel-opening handshake   *)
(* of the lobby client (src/frontend/src/components/GameLobby.jsx) and the *)
(* settlement calculator (src/frontend/src/services/nitroliteClient.js).   *)
(***************************************************************************)
EXTENDS Integers, Sequences, FiniteSets, TLC

(***************************************************************************)
(* Bounds of the model.                                                    *)
(***************************************************************************)
NSockets == 3      \* socket connections that ever exist
MaxGames == 2      \* games ever created (uuid v4 identifiers 1..MaxGames)
MaxBlocks == 2     \* longest block list a client sends as blockStates
MaxEvents == 4     \* events the server handles in one behaviour
MaxHeight == 301   \* largest tower height settled
NegHeights == 2    \* tower heights start at -NegHeights
MaxStake == 21     \* entry fees 0..MaxStake are settled, and the default fee
MaxDirEvents == 5  \* events the session directory handles in one behaviour
MaxScore == 1      \* scores 0..MaxScore are reported by update_score and game_end
MaxRedelivered == 1  \* events the relay delivers twice in one handshake
MaxPlayEvents == 5 \* events of sessions in play handled in one behaviour
MaxBodies == 2     \* blocks in a client's world when a snapshot arrives
MaxApplications == 2  \* times in a row the same snapshot is applied
MaxCloseRequests == 2 \* settlement requests one client sends to the ledger
NegScores == 1     \* final scores below zero a client may submit
MaxFinalScore == 3 \* largest final score a client may submit
MaxEndEvents == 4  \* joins and ends of session handled in one behaviour
MaxTurnEvents == 4 \* joins and end_turn messages the server handles in one behaviour

\* export const DEFAULT_ENTRY_FEE = '1000000'
DEFAULT_ENTRY_FEE == 1000000

\* const BET_AMOUNT = '1000000'
BET_AMOUNT == 1000000

Sockets == 1..NSockets
Modes == {"tower"}
DirModes == {"tower", "sprint"}
Scores == 0..MaxScore
FinalScores == (-NegScores)..MaxFinalScore
GameIds == 1..MaxGames
BlockValues == {"b"}
NoGame == 0
NoData == <<>>

\* The block lists a client may send as blockStates (end_turn, sync_game_state).
RECURSIVE SeqsUpTo(_, _)
SeqsUpTo(S, n) ==
  IF n = 0 THEN {<<>>}
  ELSE LET shorter == SeqsUpTo(S, n - 1)
       IN shorter \cup {Append(q, v) : q \in {r \in shorter : Len(r) = n - 1}, v \in S}

Snapshots == SeqsUpTo(BlockValues, MaxBlocks)

VARIABLES
  connected,      \* sockets whose connection is open (io 'connection' seen, no 'disconnect' yet)
  lobbies,        \* Map modeId -> { players: [...] }
  activeGames,    \* Map gameId -> game
  playerSockets,  \* Map socketId -> { modeId, gameId }
  rooms,          \* socket.io rooms: gameId -> sockets joined
  nextGameId,     \* next fresh game identifier
  events,         \* number of events handled so far
  recv,           \* the event the server handled last: [ev, from, gameId, data]
  sent,           \* the messages that handler emitted, in order
  towerHeight,    \* gameResult.towerHeight handed to the settlement
  entryFee,       \* entryFee handed to the settlement
  settlement,     \* what settleGameSession computed and returned
  preview,        \* what calculatePayouts returned
  isConnected,            \* nitroliteClient.isConnected of each lobby client
  sessionSigner,          \* nitroliteClient.sessionSigner of each lobby client
  gameDataRef,            \* gameDataRef.current is set
  countdownStartedRef,    \* countdownStartedRef.current
  stateChannelSessionId,  \* the identifier each client started its countdown with
  pendingProposalRef,     \* pendingProposalRef.current of each client
  timerArmed,             \* the client's 15 s setTimeout has not fired yet
  pendingRequests,        \* entries of each client's pendingRequests map (one request id)
  inbox,                  \* relay events on their way to each client, in order
  clock,                  \* Date.now() of the next fabricated identifier
  negLog,                 \* the steps the clients took in the handshake, in order
  redelivered,            \* events the relay delivered a second time
  world,          \* engineRef.current.world of a game client: its bodies, in order
  receivedStates, \* data.blockStates: the snapshot the client receives
  applied,        \* the handlers that applied the snapshot so far, in order
  worldLog,       \* the world before each of these applications
  sessionId,          \* sessionId prop of the GameSettlement component
  myPlayerNumber,     \* playerNumber prop of the GameSettlement component
  settlementState,    \* its state: pending, settling, success or error
  settlementError,    \* its error
  settlementDetails,  \* its settlementDetails
  appSessionId,       \* nitroliteClient.appSessionId of that client
  closeRequests,      \* the close messages that client sent to the ledger, in order
  countdownTicks,     \* firings of each lobby client's countdown interval so far
  gameEntered,        \* onGameStart was invoked by each lobby client
  lobbyStatus,        \* status of each lobby client's GameLobby: a waiting status, or error
  isMyTurn,           \* isMyTurn of the client behind each socket
  currentGameId,      \* matchmaking.currentGameId of that client
  clientPlayerNumber, \* matchmaking.playerNumber of that client
  toClient,           \* messages on their way from the server to each socket, in order
  toServer            \* messages on their way from each socket to the server, in order

serverVars == <<connected, lobbies, activeGames, playerSockets, rooms, nextGameId, events, recv, sent>>

settleVars == <<towerHeight, entryFee, settlement, preview>>

negVars == <<isConnected, sessionSigner, gameDataRef, countdownStartedRef, stateChannelSessionId,
             pendingProposalRef, timerArmed, pendingRequests, inbox, clock, negLog, redelivered>>

clientVars == <<world, receivedStates, applied, worldLog>>

uiVars == <<sessionId, myPlayerNumber, settlementState, settlementError, settlementDetails,
            appSessionId, closeRequests>>

lobbyVars == <<countdownTicks, gameEntered, lobbyStatus>>

turnVars == <<isMyTurn, currentGameId, clientPlayerNumber, toClient, toServer>>

vars == <<serverVars, settleVars, negVars, clientVars, uiVars, lobbyVars, turnVars>>

----------------------------------------------------------------------------
(***************************************************************************)
(* Helpers of the server model.                                            *)
(***************************************************************************)

\* Map.set(k, v)
MapSet(map, k, v) == [x \in DOMAIN map \cup {k} |-> IF x = k THEN v ELSE map[x]]

\* Map.delete(k)
MapDelete(map, k) == [x \in DOMAIN map \ {k} |-> map[x]]

\* lobby.players.filter(p => p.socketId !== socket.id)
RECURSIVE FilterOut(_, _)
FilterOut(players, s) ==
  IF players = <<>> THEN <<>>
  ELSE IF Head(players).socketId = s THEN FilterOut(Tail(players), s)
       ELSE <<Head(players)>> \o FilterOut(Tail(players), s)

\* io.to(room).emit: one message per socket of the room, connected sockets only.
RECURSIVE ToAll(_, _)
ToAll(S, msg) ==
  IF S = {} THEN <<>>
  ELSE LET s == CHOOSE x \in S : \A y \in S : x <= y
       IN <<[msg EXCEPT !.to = s]>> \o ToAll(S \ {s}, msg)

\* io.to(socketId).emit: delivered only while that socket is connected.
ToSocket(s, msg) == IF s \in connected THEN <<[msg EXCEPT !.to = s]>> ELSE <<>>

\* const playerNumber = game.player1.socketId === socket.id ? 1 : 2
PlayerNumber(game, s) == IF game.player1.socketId = s THEN 1 ELSE 2

\* if (game.gameState.currentTurn !== playerNumber) -> rejected
NotYourTurnNever(game, playerNumber) == FALSE
NotYourTurn(game, playerNumber) == game.gameState.currentTurn # playerNumber

\* if (lobby.players.length > 0): a player is already waiting
OpponentWaitingNever(players) == FALSE
OpponentWaiting(players) == Len(players) > 0

\* lobby.players = lobby.players.filter(..) of leave_lobby
LeaveQueueOfAll(players, s) == <<>>
LeaveQueue(players, s) == FilterOut(players, s)

\* the initial gameState of a new game
InitialGameStateTurnTwo == [blocks |-> <<>>, currentTurn |-> 2, turnCount |-> 0, spawnedBlocks |-> 0]
InitialGameState == [blocks |-> <<>>, currentTurn |-> 1, turnCount |-> 0, spawnedBlocks |-> 0]

ServerInit ==
  /\ connected = Sockets
  /\ lobbies = <<>>
  /\ activeGames = <<>>
  /\ playerSockets = <<>>
  /\ rooms = [g \in GameIds |-> {}]
  /\ nextGameId = 1
  /\ events = 0
  /\ recv = [ev |-> "none", from |-> 0, gameId |-> NoGame, data |-> NoData]
  /\ sent = <<>>

----------------------------------------------------------------------------
(***************************************************************************)
(* socket.on('join_lobby')                                                 *)
(***************************************************************************)
JoinLobby(s, m) ==
  /\ s \in connected
  /\ LET ps1 == MapSet(playerSockets, s, [modeId |-> m, gameId |-> NoGame])
         players == IF m \in DOMAIN lobbies THEN lobbies[m].players ELSE <<>>
     IN IF OpponentWaiting(players)
        THEN \* match found: dequeue the opponent and create the game
          LET opponent == Head(players)
              g == nextGameId
              game == [id |-> g, modeId |-> m,
                       player1 |-> [socketId |-> opponent.socketId, score |-> 0, finished |-> FALSE],
                       player2 |-> [socketId |-> s, score |-> 0, finished |-> FALSE],
                       status |-> "starting",
                       result |-> NoData,
                       gameState |-> InitialGameState]
              oppInfo == IF opponent.socketId \in DOMAIN ps1
                         THEN [ps1[opponent.socketId] EXCEPT !.gameId = g]
                         ELSE [modeId |-> "none", gameId |-> g]
              ps2 == MapSet(ps1, opponent.socketId, oppInfo)
              ps3 == MapSet(ps2, s, [modeId |-> m, gameId |-> g])
              room == {s} \cup ({opponent.socketId} \cap connected)
          IN /\ g <= MaxGames
             /\ lobbies' = MapSet(lobbies, m, [players |-> Tail(players)])
             /\ activeGames' = MapSet(activeGames, g, game)
             /\ playerSockets' = ps3
             /\ rooms' = [rooms EXCEPT ![g] = room]
             /\ nextGameId' = g + 1
             /\ sent' = ToAll(room, [to |-> 0, ev |-> "match_found", gameId |-> g])
                        \o ToSocket(opponent.socketId,
                             [to |-> 0, ev |-> "game_start", gameId |-> g, playerNumber |-> 1,
                              isYourTurn |-> TRUE, gameState |-> game.gameState])
                        \o <<[to |-> s, ev |-> "game_start", gameId |-> g, playerNumber |-> 2,
                              isYourTurn |-> FALSE, gameState |-> game.gameState]>>
        ELSE \* no opponent yet: wait in the lobby
          /\ lobbies' = MapSet(lobbies, m, [players |-> Append(players, [socketId |-> s, joinedAt |-> events])])
          /\ playerSockets' = ps1
          /\ sent' = <<[to |-> s, ev |-> "waiting_for_opponent", position |-> Len(players) + 1]>>
          /\ UNCHANGED <<activeGames, rooms, nextGameId>>
  /\ recv' = [ev |-> "join_lobby", from |-> s, gameId |-> NoGame, data |-> <<m>>]
  /\ UNCHANGED connected

(***************************************************************************)
(* socket.on('leave_lobby')                                                *)
(***************************************************************************)
LeaveLobby(s, m) ==
  /\ s \in connected
  /\ recv' = [ev |-> "leave_lobby", from |-> s, gameId |-> NoGame, data |-> <<m>>]
  /\ IF s \notin DOMAIN playerSockets
     THEN /\ sent' = <<>>
          /\ UNCHANGED lobbies
     ELSE /\ lobbies' = IF m \in DOMAIN lobbies
                        THEN [lobbies EXCEPT ![m].players = LeaveQueue(@, s)]
                        ELSE lobbies
          /\ sent' = <<[to |-> s, ev |-> "left_lobby"]>>
  /\ UNCHANGED <<connected, activeGames, playerSockets, rooms, nextGameId>>

(***************************************************************************)
(* socket.on('spawn_block')                                                *)
(***************************************************************************)
SpawnBlock(s, g, block) ==
  /\ s \in connected
  /\ recv' = [ev |-> "spawn_block", from |-> s, gameId |-> g, data |-> <<block>>]
  /\ IF g \notin DOMAIN activeGames
     THEN /\ sent' = <<>>
          /\ UNCHANGED activeGames
     ELSE LET game == activeGames[g]
              playerNumber == PlayerNumber(game, s)
          IN IF NotYourTurn(game, playerNumber)
             THEN /\ sent' = <<[to |-> s, ev |-> "error"]>>
                  /\ UNCHANGED activeGames
             ELSE /\ activeGames' = [activeGames EXCEPT
                        ![g].gameState.blocks = Append(@, block),
                        ![g].gameState.spawnedBlocks = @ + 1]
                  /\ sent' = ToAll(rooms[g], [to |-> 0, ev |-> "block_spawned", block |-> block,
                                              spawnedBy |-> playerNumber,
                                              totalBlocks |-> game.gameState.spawnedBlocks + 1])
  /\ UNCHANGED <<connected, lobbies, playerSockets, rooms, nextGameId>>

(***************************************************************************)
(* socket.on('end_turn')                                                   *)
(***************************************************************************)
NextTurn(playerNumber) == IF playerNumber = 1 THEN 2 ELSE 1

TurnChangedFlag(currentTurn, slot) == currentTurn = slot

EndTurn(s, g, blockStates) ==
  /\ s \in connected
  /\ recv' = [ev |-> "end_turn", from |-> s, gameId |-> g, data |-> blockStates]
  /\ IF g \notin DOMAIN activeGames
     THEN /\ sent' = <<>>
          /\ UNCHANGED activeGames
     ELSE LET game == activeGames[g]
              playerNumber == PlayerNumber(game, s)
              newTurn == NextTurn(playerNumber)
              newCount == game.gameState.turnCount + 1
              note(slot) == [to |-> 0, ev |-> "turn_changed", currentTurn |-> newTurn,
                             isYourTurn |-> TurnChangedFlag(newTurn, slot),
                             blockStates |-> blockStates, turnCount |-> newCount]
          IN IF NotYourTurn(game, playerNumber)
             THEN /\ sent' = <<>>
                  /\ UNCHANGED activeGames
             ELSE /\ activeGames' = [activeGames EXCEPT
                        ![g].gameState.blocks = blockStates,
                        ![g].gameState.turnCount = newCount,
                        ![g].gameState.currentTurn = newTurn]
                  /\ sent' = ToSocket(game.player1.socketId, note(1))
                             \o ToSocket(game.player2.socketId, note(2))
  /\ UNCHANGED <<connected, lobbies, playerSockets, rooms, nextGameId>>

(***************************************************************************)
(* socket.on('sync_game_state')                                            *)
(***************************************************************************)
SyncGameState(s, g, blockStates) ==
  /\ s \in connected
  /\ recv' = [ev |-> "sync_game_state", from |-> s, gameId |-> g, data |-> blockStates]
  /\ IF g \notin DOMAIN activeGames
     THEN /\ sent' = <<>>
          /\ UNCHANGED activeGames
     ELSE LET game == activeGames[g]
              playerNumber == PlayerNumber(game, s)
          IN IF NotYourTurn(game, playerNumber)
             THEN /\ sent' = <<>>
                  /\ UNCHANGED activeGames
             ELSE /\ activeGames' = [activeGames EXCEPT ![g].gameState.blocks = blockStates]
                  /\ sent' = ToAll(rooms[g] \ {s}, [to |-> 0, ev |-> "game_state_sync",
                                                   blockStates |-> blockStates,
                                                   fromPlayer |-> playerNumber])
  /\ UNCHANGED <<connected, lobbies, playerSockets, rooms, nextGameId>>

(***************************************************************************)
(* socket.on('sync_block_position')                                        *)
(***************************************************************************)
SyncBlockPosition(s, g, blockId, pose) ==
  /\ s \in connected
  /\ recv' = [ev |-> "sync_block_position", from |-> s, gameId |-> g, data |-> <<blockId, pose>>]
  /\ sent' = IF g \notin DOMAIN activeGames THEN <<>>
             ELSE ToAll(rooms[g] \ {s}, [to |-> 0, ev |-> "block_position_update",
                                        blockId |-> blockId, x |-> pose.x, y |-> pose.y,
                                        angle |-> pose.angle])
  /\ UNCHANGED <<connected, lobbies, activeGames, playerSockets, rooms, nextGameId>>

(***************************************************************************)
(* socket.on('disconnect')                                                 *)
(***************************************************************************)
Disconnect(s) ==
  /\ s \in connected
  /\ connected' = connected \ {s}
  /\ rooms' = [g \in GameIds |-> rooms[g] \ {s}]
  /\ recv' = [ev |-> "disconnect", from |-> s, gameId |-> NoGame, data |-> NoData]
  /\ IF s \notin DOMAIN playerSockets
     THEN /\ sent' = <<>>
          /\ UNCHANGED <<lobbies, activeGames, playerSockets>>
     ELSE LET info == playerSockets[s]
              g == info.gameId
              abandon == /\ g # NoGame
                         /\ g \in DOMAIN activeGames
                         /\ activeGames[g].status # "completed"
          IN /\ lobbies' = IF info.modeId \in DOMAIN lobbies
                           THEN [lobbies EXCEPT ![info.modeId].players = FilterOut(@, s)]
                           ELSE lobbies
             /\ activeGames' = IF abandon
                               THEN [activeGames EXCEPT ![g].status = "abandoned"]
                               ELSE activeGames
             /\ sent' = IF abandon
                        THEN ToAll(rooms[g] \ {s}, [to |-> 0, ev |-> "opponent_disconnected", gameId |-> g])
                        ELSE <<>>
             /\ playerSockets' = MapDelete(playerSockets, s)
  /\ UNCHANGED nextGameId

(***************************************************************************)
(* socket.on('update_score')                                               *)
(***************************************************************************)
\* if (game.player1.socketId === socket.id) .. else if (game.player2.socketId === socket.id) ..
SlotOf(game, s) ==
  IF game.player1.socketId = s THEN 1
  ELSE IF game.player2.socketId = s THEN 2
  ELSE 0

UpdateScore(s, g, score) ==
  /\ s \in connected
  /\ recv' = [ev |-> "update_score", from |-> s, gameId |-> g, data |-> <<score>>]
  /\ IF g \notin DOMAIN activeGames
     THEN /\ sent' = <<>>
          /\ UNCHANGED activeGames
     ELSE /\ activeGames' =
               CASE SlotOf(activeGames[g], s) = 1 -> [activeGames EXCEPT ![g].player1.score = score]
                 [] SlotOf(activeGames[g], s) = 2 -> [activeGames EXCEPT ![g].player2.score = score]
                 [] OTHER -> activeGames
          /\ sent' = ToAll(rooms[g] \ {s}, [to |-> 0, ev |-> "opponent_score", score |-> score])
  /\ UNCHANGED <<connected, lobbies, playerSockets, rooms, nextGameId>>

(***************************************************************************)
(* socket.on('game_end')                                                   *)
(***************************************************************************)
\* Math.floor(ratio * 1000) with ratio = totalScore > 0 ? score / totalScore : 0.5
RatioPermille(score, totalScore) ==
  IF totalScore > 0 THEN (score * 1000) \div totalScore ELSE 500

\* (distributablePot * BigInt(permille)) / 1000n: the BigInt quotient truncates
\* towards zero; the product is split so that it stays within machine integers
PermilleOf(pot, permille) ==
  LET trunc(a) == IF a >= 0 THEN a \div 1000 ELSE -((-a) \div 1000)
  IN (pot \div 1000) * permille + trunc((pot % 1000) * permille)

\* the result of a game whose two players have finished
GameResult(game) ==
  LET p1Score == game.player1.score
      p2Score == game.player2.score
      totalScore == p1Score + p2Score
      totalPot == BET_AMOUNT * 2
      fee == (totalPot * 2) \div 100
      distributablePot == totalPot - fee
  IN [gameId |-> game.id,
      player1 |-> [score |-> p1Score,
                   payout |-> PermilleOf(distributablePot, RatioPermille(p1Score, totalScore))],
      player2 |-> [score |-> p2Score,
                   payout |-> PermilleOf(distributablePot, RatioPermille(p2Score, totalScore))],
      winner |-> IF p1Score > p2Score THEN 1 ELSE IF p2Score > p1Score THEN 2 ELSE 0,
      fee |-> fee]

GameEnd(s, g, finalScore) ==
  /\ s \in connected
  /\ recv' = [ev |-> "game_end", from |-> s, gameId |-> g, data |-> <<finalScore>>]
  /\ IF g \notin DOMAIN activeGames
     THEN /\ sent' = <<>>
          /\ UNCHANGED activeGames
     ELSE LET game == activeGames[g]
              scored ==
                CASE SlotOf(game, s) = 1 ->
                       [game EXCEPT !.player1.score = finalScore, !.player1.finished = TRUE]
                  [] SlotOf(game, s) = 2 ->
                       [game EXCEPT !.player2.score = finalScore, !.player2.finished = TRUE]
                  [] OTHER -> game
          IN IF scored.player1.finished /\ scored.player2.finished
             THEN /\ sent' = ToAll(rooms[g], [to |-> 0, ev |-> "game_result",
                                              result |-> GameResult(scored)])
                  /\ activeGames' = [activeGames EXCEPT
                        ![g] = [scored EXCEPT !.status = "completed",
                                              !.result = <<GameResult(scored)>>]]
             ELSE /\ sent' = <<>>
                  /\ activeGames' = [activeGames EXCEPT ![g] = scored]
  /\ UNCHANGED <<connected, lobbies, playerSockets, rooms, nextGameId>>

\* setTimeout(() => activeGames.delete(gameId), 60000) of a completed game
GameExpire(g) ==
  /\ g \in DOMAIN activeGames
  /\ activeGames[g].status = "completed"
  /\ activeGames' = MapDelete(activeGames, g)
  /\ recv' = [ev |-> "expire", from |-> 0, gameId |-> g, data |-> NoData]
  /\ sent' = <<>>
  /\ UNCHANGED <<connected, lobbies, playerSockets, rooms, nextGameId>>

(***************************************************************************)
(* setInterval: clean up stale lobbies.  Time is counted in events; the    *)
(* entries that joined at or before cutoff are older than STALE_THRESHOLD. *)
(***************************************************************************)
\* now - p.joinedAt < STALE_THRESHOLD, with cutoff = now - STALE_THRESHOLD
IsFreshOrAtThreshold(p, cutoff) == p.joinedAt >= cutoff
IsFresh(p, cutoff) == p.joinedAt > cutoff

RECURSIVE FilterFresh(_, _)
FilterFresh(players, cutoff) ==
  IF players = <<>> THEN <<>>
  ELSE IF ~IsFresh(Head(players), cutoff) THEN FilterFresh(Tail(players), cutoff)
       ELSE <<Head(players)>> \o FilterFresh(Tail(players), cutoff)

Sweep(cutoff) ==
  /\ LET kept == {m \in DOMAIN lobbies : FilterFresh(lobbies[m].players, cutoff) # <<>>}
     IN lobbies' = [m \in kept |-> [players |-> FilterFresh(lobbies[m].players, cutoff)]]
  /\ recv' = [ev |-> "sweep", from |-> 0, gameId |-> NoGame, data |-> <<cutoff>>]
  /\ sent' = <<>>
  /\ UNCHANGED <<connected, activeGames, playerSockets, rooms, nextGameId>>

----------------------------------------------------------------------------
\* One more event is taken from the sockets' streams.
Handle == events < MaxEvents /\ events' = events + 1

ServerNext ==
  \/ \E s \in Sockets, m \in Modes : Handle /\ JoinLobby(s, m)
  \/ \E s \in Sockets, m \in Modes : Handle /\ LeaveLobby(s, m)
  \/ \E s \in Sockets, g \in GameIds, b \in BlockValues : Handle /\ SpawnBlock(s, g, b)
  \/ \E s \in Sockets, g \in GameIds, bs \in Snapshots : Handle /\ EndTurn(s, g, bs)
  \/ \E s \in Sockets, g \in GameIds, bs \in Snapshots : Handle /\ SyncGameState(s, g, bs)
  \/ \E s \in Sockets : Handle /\ Disconnect(s)

\* The waiting queues: joins for several modes, leaves, disconnections and the
\* sweep of stale entries (no other handler changes lobbies).
LobbyEvents ==
  \/ \E s \in Sockets, m \in DirModes : Handle /\ JoinLobby(s, m)
  \/ \E s \in Sockets, m \in DirModes : Handle /\ LeaveLobby(s, m)
  \/ \E s \in Sockets : Handle /\ Disconnect(s)
  \/ \E cutoff \in 0..MaxEvents : Handle /\ cutoff <= events /\ Sweep(cutoff)

\* One more event of a session's life: pairing, scores, ends of session,
\* disconnections and the eviction timer.
HandleDir == events < MaxDirEvents /\ events' = events + 1

SessionEvents ==
  \/ \E s \in Sockets, m \in Modes : HandleDir /\ JoinLobby(s, m)
  \/ \E s \in Sockets : HandleDir /\ Disconnect(s)
  \/ \E s \in Sockets, g \in GameIds, score \in Scores : HandleDir /\ UpdateScore(s, g, score)
  \/ \E s \in Sockets, g \in GameIds, score \in Scores : HandleDir /\ GameEnd(s, g, score)
  \/ \E g \in GameIds : HandleDir /\ GameExpire(g)

\* One more join or end of session.
HandleEnd == events < MaxEndEvents /\ events' = events + 1

\* Pairings and the final scores the clients submit.
EndEvents ==
  \/ \E s \in Sockets, m \in Modes : HandleEnd /\ JoinLobby(s, m)
  \/ \E s \in Sockets, g \in GameIds, score \in FinalScores : HandleEnd /\ GameEnd(s, g, score)

\* One more event of a session in play.
HandlePlay == events < MaxPlayEvents /\ events' = events + 1

\* the block a client spawns: createBlock gives it a syncId of its own,
\* `block_${Date.now()}_${random}`
SpawnedBlock(now) == [syncId |-> now, label |-> "square", x |-> 0, y |-> 0]

\* the snapshots a client sends in play: nothing, or the blocks of the game
PlaySnapshots(g) ==
  {<<>>} \cup (IF g \in DOMAIN activeGames THEN {activeGames[g].gameState.blocks} ELSE {})

\* The relay delivers the spawn_block message it delivered last once more.
RedeliverSpawn ==
  /\ recv.ev = "spawn_block"
  /\ SpawnBlock(recv.from, recv.gameId, recv.data[1])

\* The events of sessions in play: pairing, the turn operations, in-flight
\* positions, scores, ends of session and disconnections.
PlayEvents ==
  \/ \E s \in Sockets, m \in Modes : HandlePlay /\ JoinLobby(s, m)
  \/ \E s \in Sockets, g \in GameIds : HandlePlay /\ SpawnBlock(s, g, SpawnedBlock(events))
  \/ HandlePlay /\ RedeliverSpawn
  \/ \E s \in Sockets, g \in GameIds : \E bs \in PlaySnapshots(g) : HandlePlay /\ EndTurn(s, g, bs)
  \/ \E s \in Sockets, g \in GameIds : \E bs \in PlaySnapshots(g) : HandlePlay /\ SyncGameState(s, g, bs)
  \/ \E s \in Sockets, g \in GameIds : HandlePlay /\ SyncBlockPosition(s, g, 1, [x |-> 1, y |-> 1, angle |-> 1])
  \/ \E s \in Sockets, g \in GameIds : HandlePlay /\ UpdateScore(s, g, MaxScore)
  \/ \E s \in Sockets, g \in GameIds : HandlePlay /\ GameEnd(s, g, MaxScore)
  \/ \E s \in Sockets : HandlePlay /\ Disconnect(s)

----------------------------------------------------------------------------
(***************************************************************************)
(* Settlement calculator: nitroliteClient.js settleGameSession and the     *)
(* payout preview of the GameSettlement component.                         *)
(***************************************************************************)
Heights == (-NegHeights)..MaxHeight
Stakes == (0..MaxStake) \cup {DEFAULT_ENTRY_FEE}
NoResult == [none |-> TRUE]

\* export const REWARD_TIERS; a multiplier m is kept as <<n, d>> with m = n / d.
REWARD_TIERS ==
  << [minHeight |-> 300, multiplier |-> <<20, 10>>, label |-> "Legendary"],
     [minHeight |-> 200, multiplier |-> <<15, 10>>, label |-> "Epic"],
     [minHeight |-> 100, multiplier |-> <<12, 10>>, label |-> "Great"],
     [minHeight |-> 0, multiplier |-> <<10, 10>>, label |-> "Complete"] >>

\* if (towerHeight >= tier.minHeight)
TierMatchesStrictly(h, tier) == h > tier.minHeight
TierMatches(h, tier) == h >= tier.minHeight

\* export function getRewardTier(towerHeight): the first tier of the list that
\* matches, the last tier when none does.
GetRewardTier(h) ==
  LET hits == {i \in 1..Len(REWARD_TIERS) : TierMatches(h, REWARD_TIERS[i])}
  IN IF hits # {}
     THEN REWARD_TIERS[CHOOSE i \in hits : \A j \in hits : i <= j]
     ELSE REWARD_TIERS[Len(REWARD_TIERS)]

\* BigInt division truncates toward zero.
BigIntDiv(a, b) == IF a >= 0 THEN a \div b ELSE -((-a) \div b)

\* BigInt(Math.floor(rewardTier.multiplier * 100))
MultiplierBasisReversed(tier) == 300 - (tier.multiplier[1] * 100) \div tier.multiplier[2]
MultiplierBasis(tier) == (tier.multiplier[1] * 100) \div tier.multiplier[2]

\* const bonusPortion = totalRewards - totalEntryFees
BonusPortionWholePot(totalRewards, totalEntryFees) == totalRewards
BonusPortion(totalRewards, totalEntryFees) == totalRewards - totalEntryFees

\* const protocolFee = bonusPortion > 0n ? bonusPortion * 5n / 100n : 0n
ProtocolFee(bonusPortion) == IF bonusPortion > 0 THEN BigIntDiv(bonusPortion * 5, 100) ELSE 0

\* The arithmetic of settleGameSession (its locals and the returned payouts).
Settle(h, fee) ==
  LET rewardTier == GetRewardTier(h)
      totalEntryFees == fee * 2
      totalRewards == BigIntDiv(totalEntryFees * MultiplierBasis(rewardTier), 100)
      bonusPortion == BonusPortion(totalRewards, totalEntryFees)
      protocolFee == ProtocolFee(bonusPortion)
      distributableRewards == totalRewards - protocolFee
  IN [player1Payout |-> BigIntDiv(distributableRewards, 2),
      player2Payout |-> BigIntDiv(distributableRewards, 2),
      protocolFee |-> protocolFee,
      totalRewards |-> totalRewards,
      rewardTier |-> rewardTier,
      multiplier |-> rewardTier.multiplier,
      towerHeight |-> h]

\* NitroliteClient.settleGameSession(gameResult, entryFee)
SettleGameSession ==
  /\ settlement = NoResult
  /\ settlement' = Settle(towerHeight, entryFee)
  /\ UNCHANGED <<towerHeight, entryFee, preview>>

\* calculatePayouts of GameSettlement: towerHeight = gameResult.towerHeight || 0
CalculatePayouts ==
  /\ preview = NoResult
  /\ LET r == Settle(towerHeight, entryFee)
     IN preview' = [player1Payout |-> r.player1Payout,
                    player2Payout |-> r.player2Payout,
                    protocolFee |-> r.protocolFee,
                    totalRewards |-> r.totalRewards,
                    rewardTier |-> r.rewardTier,
                    towerHeight |-> towerHeight,
                    profit |-> r.player1Payout - entryFee]
  /\ UNCHANGED <<towerHeight, entryFee, settlement>>

\* No settlement is in progress.
SettleIdle ==
  /\ towerHeight = 0
  /\ entryFee = 0
  /\ settlement = NoResult
  /\ preview = NoResult

----------------------------------------------------------------------------
(***************************************************************************)
(* Channel-opening handshake: the lobby clients of one session             *)
(* (GameLobby.jsx) with their nitroliteClient, the relay between them and  *)
(* the ledger service.                                                     *)
(***************************************************************************)
Players == 1..2

\* data.playerNumber === 1: the client that creates the proposal
Proposer == 1

Peer(c) == 3 - c

\* sessionSigner is null, or a signer that signs, throws or never answers
SignerStates == {"null", "signs", "throws", "silent"}

\* what a sendAndWait of the proposer ends with
LedgerOutcomes == {"issued", "no_id", "error", "timeout"}

\* the events a client sends to its peer through the relay
RelayedEvents == {"session_proposal_received", "session_signature_received", "session_ready"}

NoId == [kind |-> "none", by |-> 0, n |-> 0, rand |-> FALSE]

\* `demo_session_${Date.now()}_${Math.random().toString(36).substr(2, 9)}`
\* (the random suffixes of two clients are taken to differ)
LocalDemoId(c, now) == [kind |-> "demo", by |-> c, n |-> now, rand |-> TRUE]

\* `demo_session_${Date.now()}`
DemoId(c, now) == [kind |-> "demo", by |-> c, n |-> now, rand |-> FALSE]

\* session.appSessionId issued by the ledger service
AppSessionId(now) == [kind |-> "real", by |-> 0, n |-> now, rand |-> FALSE]

\* pendingProposalRef.current = null
NoProposal == [present |-> FALSE, participants |-> <<>>, amounts |-> <<>>, sig |-> <<>>]

\* createSessionProposal: { message: { req, sig: [own signature] }, request, signature }
\* with req holding the definition (participants) and the allocations (amounts)
CreateSessionProposal(c) ==
  [present |-> TRUE,
   participants |-> <<c, Peer(c)>>,
   amounts |-> <<DEFAULT_ENTRY_FEE, DEFAULT_ENTRY_FEE>>,
   sig |-> <<c>>]

\* message.sig.push(coSignature)
SigPush(proposal, coSignature) == [proposal EXCEPT !.sig = Append(@, coSignature)]

\* One step taken by client c in the handshake, as kept in negLog.
Did(act, c, id, proposal) == [act |-> act, by |-> c, id |-> id, proposal |-> proposal]

\* the event at the head of client c's relay connection
Arrived(c, ev) == inbox[c] # <<>> /\ Head(inbox[c]).ev = ev

Consume(q, c) == [q EXCEPT ![c] = Tail(@)]

\* matchmaking.sendSessionProposal(proposal): relayed to the peer
SendSessionProposal(q, from, proposal) ==
  [q EXCEPT ![Peer(from)] = Append(@, [ev |-> "session_proposal_received", payload |-> proposal])]

\* matchmaking.sendSessionSignature(signature): relayed to the peer
SendSessionSignature(q, from, signature) ==
  [q EXCEPT ![Peer(from)] = Append(@, [ev |-> "session_signature_received", payload |-> signature])]

\* matchmaking.broadcastSessionCreated(sessionId): session_ready to both players
BroadcastSessionCreated(q, id) ==
  [c \in Players |-> Append(q[c], [ev |-> "session_ready", payload |-> id])]

\* startGameCountdown(data, stateChannelSessionId); how tells whether the
\* identifier is the client's own ("start") or a broadcast one ("adopt")
StartGameCountdown(c, id) ==
  /\ countdownStartedRef' = [countdownStartedRef EXCEPT ![c] = TRUE]
  /\ stateChannelSessionId' =
       IF countdownStartedRef[c] THEN stateChannelSessionId
       ELSE [stateChannelSessionId EXCEPT ![c] = id]

StartedAs(c, how, id) ==
  IF countdownStartedRef[c] THEN <<>> ELSE <<Did(how, c, id, NoProposal)>>

\* demoId = `demo_session_${Date.now()}`; broadcastSessionCreated(demoId);
\* startGameCountdown(.., demoId), after the events q and the steps done
FallBackWithoutBroadcast(c, q, done) ==
  /\ inbox' = q
  /\ StartGameCountdown(c, DemoId(c, clock))
  /\ clock' = clock + 1
  /\ negLog' = negLog \o done \o StartedAs(c, "start", DemoId(c, clock))
FallBack(c, q, done) ==
  /\ inbox' = BroadcastSessionCreated(q, DemoId(c, clock))
  /\ StartGameCountdown(c, DemoId(c, clock))
  /\ clock' = clock + 1
  /\ negLog' = negLog \o done \o <<Did("broadcast", c, DemoId(c, clock), NoProposal)>>
                 \o StartedAs(c, "start", DemoId(c, clock))

\* The state right after the server emitted game_start to the two players of a session.
NegInit ==
  /\ isConnected \in [Players -> BOOLEAN]
  /\ sessionSigner \in [Players -> SignerStates]
  /\ \A c \in Players : isConnected[c] => sessionSigner[c] # "null"
  /\ gameDataRef = [c \in Players |-> FALSE]
  /\ countdownStartedRef = [c \in Players |-> FALSE]
  /\ stateChannelSessionId = [c \in Players |-> NoId]
  /\ pendingProposalRef = [c \in Players |-> NoProposal]
  /\ timerArmed = [c \in Players |-> FALSE]
  /\ pendingRequests = [c \in Players |-> 0]
  /\ inbox = [c \in Players |-> <<[ev |-> "game_start", payload |-> [playerNumber |-> c]]>>]
  /\ clock = 1
  /\ negLog = <<>>
  /\ redelivered = 0

\* No handshake is in progress.
NegIdle ==
  /\ isConnected = [c \in Players |-> FALSE]
  /\ sessionSigner = [c \in Players |-> "null"]
  /\ gameDataRef = [c \in Players |-> FALSE]
  /\ countdownStartedRef = [c \in Players |-> FALSE]
  /\ stateChannelSessionId = [c \in Players |-> NoId]
  /\ pendingProposalRef = [c \in Players |-> NoProposal]
  /\ timerArmed = [c \in Players |-> FALSE]
  /\ pendingRequests = [c \in Players |-> 0]
  /\ inbox = [c \in Players |-> <<>>]
  /\ clock = 1
  /\ negLog = <<>>
  /\ redelivered = 0

\* matchmaking.on('game_start')
GameStart(c) ==
  /\ Arrived(c, "game_start")
  /\ gameDataRef' = [gameDataRef EXCEPT ![c] = TRUE]
  /\ IF ~isConnected[c]
     THEN \* demo mode: a simulated session id of this client's own
          /\ StartGameCountdown(c, LocalDemoId(c, clock))
          /\ negLog' = negLog \o StartedAs(c, "start", LocalDemoId(c, clock))
          /\ clock' = clock + 1
          /\ inbox' = Consume(inbox, c)
          /\ UNCHANGED <<pendingProposalRef, timerArmed>>
     ELSE IF Head(inbox[c]).payload.playerNumber = Proposer
     THEN CASE sessionSigner[c] = "signs" ->
                 \* proposal created, sent, stored, 15 s timeout set
                 /\ inbox' = SendSessionProposal(Consume(inbox, c), c, CreateSessionProposal(c))
                 /\ pendingProposalRef' = [pendingProposalRef EXCEPT ![c] = CreateSessionProposal(c)]
                 /\ timerArmed' = [timerArmed EXCEPT ![c] = TRUE]
                 /\ negLog' = Append(negLog, Did("create", c, NoId, CreateSessionProposal(c)))
                 /\ UNCHANGED <<countdownStartedRef, stateChannelSessionId, clock>>
            [] sessionSigner[c] = "silent" ->
                 \* await createSessionProposal never resumes
                 /\ inbox' = Consume(inbox, c)
                 /\ UNCHANGED <<countdownStartedRef, stateChannelSessionId, clock,
                                pendingProposalRef, timerArmed, negLog>>
            [] OTHER ->
                 \* createSessionProposal throws: catch
                 /\ FallBack(c, Consume(inbox, c), <<>>)
                 /\ UNCHANGED <<pendingProposalRef, timerArmed>>
     ELSE \* player 2 waits for the proposal
          /\ inbox' = Consume(inbox, c)
          /\ UNCHANGED <<countdownStartedRef, stateChannelSessionId, clock,
                         pendingProposalRef, timerArmed, negLog>>
  /\ UNCHANGED <<isConnected, sessionSigner, pendingRequests, redelivered>>

\* matchmaking.on('session_proposal_received') with signSessionProposal
SessionProposalReceived(c) ==
  /\ Arrived(c, "session_proposal_received")
  /\ CASE sessionSigner[c] = "signs" ->
            /\ inbox' = SendSessionSignature(Consume(inbox, c), c, [error |-> FALSE, sig |-> c])
            /\ negLog' = Append(negLog, Did("sign", c, NoId, Head(inbox[c]).payload))
       [] sessionSigner[c] = "silent" ->
            /\ inbox' = Consume(inbox, c)
            /\ UNCHANGED negLog
       [] OTHER ->
            /\ inbox' = SendSessionSignature(Consume(inbox, c), c, [error |-> TRUE, sig |-> 0])
            /\ negLog' = Append(negLog, Did("sign_failed", c, NoId, Head(inbox[c]).payload))
  /\ UNCHANGED <<isConnected, sessionSigner, gameDataRef, countdownStartedRef,
                 stateChannelSessionId, pendingProposalRef, timerArmed, pendingRequests,
                 clock, redelivered>>

\* matchmaking.on('session_signature_received') up to the await of sendAndWait
SessionSignatureReceived(c) ==
  /\ Arrived(c, "session_signature_received")
  /\ LET signature == Head(inbox[c]).payload
         proposal == pendingProposalRef[c]
     IN IF signature.error
        THEN /\ FallBack(c, Consume(inbox, c), <<Did("peer_failed", c, NoId, proposal)>>)
             /\ pendingProposalRef' = [pendingProposalRef EXCEPT ![c] = NoProposal]
             /\ UNCHANGED pendingRequests
        ELSE IF ~proposal.present
        THEN /\ inbox' = Consume(inbox, c)
             /\ UNCHANGED <<countdownStartedRef, stateChannelSessionId, clock,
                            pendingProposalRef, pendingRequests, negLog>>
        ELSE IF ~isConnected[c]
        THEN \* submitMultiSignedSession throws 'Not connected to ClearNode'
             /\ FallBack(c, Consume(inbox, c), <<Did("submit_failed", c, NoId, proposal)>>)
             /\ pendingProposalRef' = [pendingProposalRef EXCEPT ![c] = NoProposal]
             /\ UNCHANGED pendingRequests
        ELSE \* message.sig.push(coSignature); sendAndWait(messageStr):
             \* pendingRequests.set(requestId, ..) with the proposal's request id
             /\ inbox' = Consume(inbox, c)
             /\ pendingProposalRef' =
                  [pendingProposalRef EXCEPT ![c] = SigPush(proposal, signature.sig)]
             /\ pendingRequests' = [pendingRequests EXCEPT ![c] = 1]
             /\ negLog' = Append(negLog, Did("submit", c, NoId, SigPush(proposal, signature.sig)))
             /\ UNCHANGED <<countdownStartedRef, stateChannelSessionId, clock>>
  /\ UNCHANGED <<isConnected, sessionSigner, gameDataRef, timerArmed, redelivered>>

\* the pending request resolves, rejects or times out (30 s) and is deleted
\* from the map, and the rest of the session_signature_received handler runs
LedgerResponds(c, outcome) ==
  /\ pendingRequests[c] > 0
  /\ outcome # "timeout" => isConnected[c]
  /\ pendingRequests' = [pendingRequests EXCEPT ![c] = @ - 1]
  /\ IF outcome = "issued"
     THEN /\ inbox' = BroadcastSessionCreated(inbox, AppSessionId(clock))
          /\ StartGameCountdown(c, AppSessionId(clock))
          /\ clock' = clock + 1
          /\ negLog' = negLog \o <<Did("issued", 0, AppSessionId(clock), NoProposal),
                                   Did("broadcast", c, AppSessionId(clock), NoProposal)>>
                         \o StartedAs(c, "start", AppSessionId(clock))
     ELSE FallBack(c, inbox, <<Did(outcome, c, NoId, NoProposal)>>)
  /\ pendingProposalRef' = [pendingProposalRef EXCEPT ![c] = NoProposal]
  /\ UNCHANGED <<isConnected, sessionSigner, gameDataRef, timerArmed, redelivered>>

\* the setTimeout(.., 15000) callback of the proposer
SignatureTimeout(c) ==
  /\ timerArmed[c]
  /\ timerArmed' = [timerArmed EXCEPT ![c] = FALSE]
  /\ IF pendingProposalRef[c].present /\ ~countdownStartedRef[c]
     THEN /\ FallBack(c, inbox, <<Did("signature_timeout", c, NoId, pendingProposalRef[c])>>)
          /\ pendingProposalRef' = [pendingProposalRef EXCEPT ![c] = NoProposal]
     ELSE UNCHANGED <<inbox, countdownStartedRef, stateChannelSessionId, clock,
                      pendingProposalRef, negLog>>
  /\ UNCHANGED <<isConnected, sessionSigner, gameDataRef, pendingRequests, redelivered>>

\* matchmaking.on('session_ready')
SessionReady(c) ==
  /\ Arrived(c, "session_ready")
  /\ inbox' = Consume(inbox, c)
  /\ IF gameDataRef[c] /\ ~countdownStartedRef[c]
     THEN /\ StartGameCountdown(c, Head(inbox[c]).payload)
          /\ negLog' = negLog \o StartedAs(c, "adopt", Head(inbox[c]).payload)
     ELSE UNCHANGED <<countdownStartedRef, stateChannelSessionId, negLog>>
  /\ UNCHANGED <<isConnected, sessionSigner, gameDataRef, pendingProposalRef, timerArmed,
                 pendingRequests, clock, redelivered>>

\* ws.onclose of the connection to the ledger service
WsClose(c) ==
  /\ isConnected[c]
  /\ isConnected' = [isConnected EXCEPT ![c] = FALSE]
  /\ UNCHANGED <<sessionSigner, gameDataRef, countdownStartedRef, stateChannelSessionId,
                 pendingProposalRef, timerArmed, pendingRequests, inbox, clock, negLog,
                 redelivered>>

\* The relay delivers an event a second time (at-least-once delivery).
Redeliver(c) ==
  /\ redelivered < MaxRedelivered
  /\ inbox[c] # <<>>
  /\ Head(inbox[c]).ev \in RelayedEvents
  /\ inbox' = [inbox EXCEPT ![c] = <<Head(@)>> \o @]
  /\ redelivered' = redelivered + 1
  /\ UNCHANGED <<isConnected, sessionSigner, gameDataRef, countdownStartedRef,
                 stateChannelSessionId, pendingProposalRef, timerArmed, pendingRequests,
                 clock, negLog>>

\* Every step of the handshake but the loss of a ledger connection.
NegProgress ==
  /\ \/ \E c \in Players : GameStart(c)
     \/ \E c \in Players : SessionProposalReceived(c)
     \/ \E c \in Players : SessionSignatureReceived(c)
     \/ \E c \in Players, outcome \in LedgerOutcomes : LedgerResponds(c, outcome)
     \/ \E c \in Players : SignatureTimeout(c)
     \/ \E c \in Players : SessionReady(c)
     \/ \E c \in Players : Redeliver(c)
  /\ UNCHANGED <<serverVars, settleVars, clientVars, uiVars, lobbyVars, turnVars>>


----------------------------------------------------------------------------
(***************************************************************************)
(* The start countdown of the lobby clients (GameLobby.jsx) and the notice *)
(* that the opponent has disconnected.                                     *)
(***************************************************************************)
\* setCountdown(3): the interval fires this many times before the game starts
CountdownFrom == 3

\* one firing of setInterval(.., 1000) of startGameCountdown; the last one
\* clears the interval and schedules onGameStart
CountdownTick(c) ==
  /\ countdownStartedRef[c]
  /\ countdownTicks[c] < CountdownFrom
  /\ countdownTicks' = [countdownTicks EXCEPT ![c] = @ + 1]
  /\ UNCHANGED <<gameEntered, lobbyStatus>>

\* setTimeout(() => onGameStartRef.current({...data, stateChannelSessionId, ..}), 0)
OnGameStart(c) ==
  /\ countdownTicks[c] = CountdownFrom
  /\ ~gameEntered[c]
  /\ gameEntered' = [gameEntered EXCEPT ![c] = TRUE]
  /\ UNCHANGED <<countdownTicks, lobbyStatus>>

\* matchmaking.on('opponent_disconnected'): the lobby is still mounted; the
\* server notifies the one participant that is left
OpponentDisconnected(c) ==
  /\ ~gameEntered[c]
  /\ gameDataRef[c]
  /\ \A d \in Players : lobbyStatus[d] # "error"
  /\ lobbyStatus' = [lobbyStatus EXCEPT ![c] = "error"]
  /\ UNCHANGED <<countdownTicks, gameEntered>>

\* The lobby clients before any countdown.
LobbyIdle ==
  /\ countdownTicks = [c \in Players |-> 0]
  /\ gameEntered = [c \in Players |-> FALSE]
  /\ lobbyStatus = [c \in Players |-> "waiting"]

----------------------------------------------------------------------------
(***************************************************************************)
(* The turn flag of the game clients (MatchmakingService, App.jsx) and the *)
(* connections that carry end_turn to the server and turn_changed back.    *)
(***************************************************************************)
\* One more join or end_turn handled by the server.
HandleTurn == events < MaxTurnEvents /\ events' = events + 1

\* the messages msgs the server emitted, each put on its recipient's connection
RECURSIVE Deliver(_, _)
Deliver(q, msgs) ==
  IF msgs = <<>> THEN q
  ELSE Deliver([q EXCEPT ![Head(msgs).to] = Append(@, Head(msgs))], Tail(msgs))

\* the lobby of the client behind socket s joins once after connecting
\* (matchmaking.joinLobby of initLobby); the server handles join_lobby and what
\* it emits goes to the clients
TurnJoin(s, m) ==
  /\ s \notin DOMAIN playerSockets
  /\ HandleTurn
  /\ JoinLobby(s, m)
  /\ toClient' = Deliver(toClient, sent')
  /\ UNCHANGED <<isMyTurn, currentGameId, clientPlayerNumber, toServer>>

\* socket.on('game_start') and socket.on('turn_changed') of MatchmakingService,
\* handleTurnChanged of App.jsx: the flag follows data.isYourTurn
ClientReceives(s) ==
  /\ toClient[s] # <<>>
  /\ toClient' = [toClient EXCEPT ![s] = Tail(@)]
  /\ LET data == Head(toClient[s])
     IN CASE data.ev = "game_start" ->
               /\ currentGameId' = [currentGameId EXCEPT ![s] = data.gameId]
               /\ clientPlayerNumber' = [clientPlayerNumber EXCEPT ![s] = data.playerNumber]
               /\ isMyTurn' = [isMyTurn EXCEPT ![s] = data.isYourTurn]
          [] data.ev = "match_found" ->
               /\ currentGameId' = [currentGameId EXCEPT ![s] = data.gameId]
               /\ UNCHANGED <<clientPlayerNumber, isMyTurn>>
          [] data.ev = "turn_changed" ->
               /\ isMyTurn' = [isMyTurn EXCEPT ![s] = data.isYourTurn]
               /\ UNCHANGED <<currentGameId, clientPlayerNumber>>
          [] OTHER -> UNCHANGED <<isMyTurn, currentGameId, clientPlayerNumber>>
  /\ UNCHANGED <<serverVars, toServer>>

\* endTurn of App.jsx and matchmaking.endTurn: if (!isMyTurn) return; emit
\* end_turn for currentGameId; isMyTurn = false
ClientEndTurn(s) ==
  /\ isMyTurn[s]
  /\ currentGameId[s] # NoGame
  /\ toServer' = [toServer EXCEPT ![s] = Append(@, [ev |-> "end_turn", gameId |-> currentGameId[s]])]
  /\ isMyTurn' = [isMyTurn EXCEPT ![s] = FALSE]
  /\ UNCHANGED <<serverVars, currentGameId, clientPlayerNumber, toClient>>

\* a connection that is not a player of game g emits end_turn for it: the
\* server reads the event from whatever socket sends it
ForeignEndTurn(s, g) ==
  /\ s \in connected
  /\ g \in DOMAIN activeGames
  /\ s \notin {activeGames[g].player1.socketId, activeGames[g].player2.socketId}
  /\ toServer[s] = <<>>
  /\ events < MaxTurnEvents
  /\ toServer' = [toServer EXCEPT ![s] = Append(@, [ev |-> "end_turn", gameId |-> g])]
  /\ UNCHANGED <<serverVars, isMyTurn, currentGameId, clientPlayerNumber, toClient>>

\* the server handles the next end_turn of socket s
ServerHandlesEndTurn(s) ==
  /\ toServer[s] # <<>>
  /\ toServer' = [toServer EXCEPT ![s] = Tail(@)]
  /\ HandleTurn
  /\ EndTurn(s, Head(toServer[s]).gameId, <<>>)
  /\ toClient' = Deliver(toClient, sent')
  /\ UNCHANGED <<isMyTurn, currentGameId, clientPlayerNumber>>

\* No client is in a game and nothing is on its way.
TurnIdle ==
  /\ isMyTurn = [s \in Sockets |-> FALSE]
  /\ currentGameId = [s \in Sockets |-> NoGame]
  /\ clientPlayerNumber = [s \in Sockets |-> 0]
  /\ toClient = [s \in Sockets |-> <<>>]
  /\ toServer = [s \in Sockets |-> <<>>]

----------------------------------------------------------------------------
(***************************************************************************)
(* The physics world of a game client (App.jsx) and the snapshots applied  *)
(* to it.                                                                   *)
(***************************************************************************)
\* body.syncId of the blocks: a start block (deterministic id) and spawned blocks
SyncIds == {"start_block_0_square", "block_1", "block_2"}

\* b.syncId.startsWith('start_block_') || b.syncId.startsWith('level_start_')
IsStartBlock(syncId) == syncId \in {"start_block_0_square"}

\* the keys of gameConfig.block_library, and a label that is not one of them
BlockLibrary == {"square"}
Labels == BlockLibrary \cup {"unknown"}

\* position and angle of a block
Poses == {[x |-> 0, y |-> 0, angle |-> 0], [x |-> 1, y |-> 1, angle |-> 1]}

\* the ground: a static body without syncId
Ground == [syncId |-> "none", label |-> "ground", x |-> 0, y |-> 0, angle |-> 0,
           velocity |-> 0, isSleeping |-> FALSE, isStatic |-> TRUE]

\* createBlock(blockConfig, { x, y }, syncId)
CreateBlock(label, x, y, syncId) ==
  [syncId |-> syncId, label |-> label, x |-> x, y |-> y, angle |-> 0,
   velocity |-> 0, isSleeping |-> FALSE, isStatic |-> FALSE]

\* the blocks a client simulates: awake and moving
LocalBlocks == {[CreateBlock("square", p.x, p.y, id) EXCEPT !.angle = p.angle, !.velocity = 1] :
                  id \in SyncIds, p \in Poses}

\* one entry of a snapshot: { syncId, label, x, y, angle, .. }
BlockStates == {[syncId |-> id, label |-> l, x |-> p.x, y |-> p.y, angle |-> p.angle] :
                  id \in SyncIds, l \in Labels, p \in Poses}

\* Matter.Body.setPosition, setAngle, setVelocity(0), setAngularVelocity(0), Sleeping.set(true)
SetPoseRelative(body, state) ==
  [body EXCEPT !.x = (@ + state.x) % 2, !.y = (@ + state.y) % 2,
               !.angle = (@ + state.angle) % 2, !.velocity = 0, !.isSleeping = TRUE]
SetPose(body, state) ==
  [body EXCEPT !.x = state.x, !.y = state.y, !.angle = state.angle,
               !.velocity = 0, !.isSleeping = TRUE]

\* bodies.find(b => b.syncId === state.syncId): the index of the first match
\* among the first n bodies (the bodies listed before the loop), 0 when none
FindBody(w, n, syncId) ==
  LET hits == {i \in 1..n : w[i].syncId = syncId}
  IN IF hits = {} THEN 0 ELSE CHOOSE i \in hits : \A j \in hits : i <= j

\* the body of the forEach of applyBlockStates for one state
ApplyState(w, n, state) ==
  LET found == FindBody(w, n, state.syncId)
  IN IF found # 0
     THEN IF w[found].isStatic THEN w
          ELSE [w EXCEPT ![found] = SetPose(@, state)]
     ELSE IF state.label \in BlockLibrary
          THEN Append(w, SetPose(CreateBlock(state.label, state.x, state.y, state.syncId), state))
          ELSE w

\* applyBlockStates(blockStates): bodies = Composite.allBodies(world) is listed
\* once, before the loop
RECURSIVE ApplyEach(_, _, _)
ApplyEach(w, n, states) ==
  IF states = <<>> THEN w
  ELSE ApplyEach(ApplyState(w, n, Head(states)), n, Tail(states))

ApplyBlockStates(w, states) == ApplyEach(w, Len(w), states)

\* the removal of orphan blocks in handleTurnChanged
RemoveOrphans(w, states) ==
  LET receivedSyncIds == {states[i].syncId : i \in 1..Len(states)}
  IN SelectSeq(w, LAMBDA b : ~(/\ ~b.isStatic
                                /\ b.syncId # "none"
                                /\ b.syncId \notin receivedSyncIds
                                /\ ~IsStartBlock(b.syncId)))

\* the world after handleTurnChanged(data) with data.blockStates = states
TurnChangedWorld(w, states) ==
  IF Len(states) > 0 THEN ApplyBlockStates(RemoveOrphans(w, states), states) ELSE w

\* the block lists whose entries have distinct identifiers: SharedState maps
\* identifiers to poses
DistinctIds(states) ==
  \A i, j \in 1..Len(states) : states[i].syncId = states[j].syncId => i = j

\* A client in a game that has just been sent a snapshot.
ClientInit ==
  /\ world \in {<<Ground>> \o w : w \in SeqsUpTo(LocalBlocks, MaxBodies)}
  /\ receivedStates \in {q \in SeqsUpTo(BlockStates, MaxBlocks) : DistinctIds(q)}
  /\ applied = <<>>
  /\ worldLog = <<>>

\* No client is in a game.
ClientIdle ==
  /\ world = <<>>
  /\ receivedStates = <<>>
  /\ applied = <<>>
  /\ worldLog = <<>>

\* The snapshot is delivered once more to the handler that applied it.
SameDelivery(handler) ==
  /\ Len(applied) < MaxApplications
  /\ applied # <<>> => applied[1] = handler
  /\ applied' = Append(applied, handler)
  /\ worldLog' = Append(worldLog, world)
  /\ UNCHANGED receivedStates

\* handleGameStateSync: if (data.blockStates) applyBlockStates(data.blockStates)
HandleGameStateSync ==
  /\ SameDelivery("game_state_sync")
  /\ world' = ApplyBlockStates(world, receivedStates)

\* handleTurnChanged
HandleTurnChanged ==
  /\ SameDelivery("turn_changed")
  /\ world' = TurnChangedWorld(world, receivedStates)

----------------------------------------------------------------------------
(***************************************************************************)
(* The settlement panel of one client: the GameSettlement component and    *)
(* the close request it hands to nitroliteClient.                          *)
(***************************************************************************)
CloseOutcomes == {"closed", "failed"}

\* const isDemoSession = sessionId?.startsWith('demo_session_')
IsDemoSession == sessionId.kind = "demo"

\* const canSettle = playerNumber === 1 || isDemoSession
CanSettleAnyone == TRUE
CanSettle == myPlayerNumber = 1 \/ IsDemoSession

\* simulatedResult of the demo branch: the payouts of the preview, demo: true
SimulatedResult ==
  LET r == Settle(towerHeight, entryFee)
  IN [player1Payout |-> r.player1Payout, player2Payout |-> r.player2Payout,
      protocolFee |-> r.protocolFee, demo |-> TRUE]

\* the result of nitroliteClient.settleGameSession handed to setSettlementDetails
RealResult ==
  LET r == Settle(towerHeight, entryFee)
  IN [player1Payout |-> r.player1Payout, player2Payout |-> r.player2Payout,
      protocolFee |-> r.protocolFee, demo |-> FALSE]

\* handleSettle; the ledger answers the close request with outcome
HandleSettle(outcome) ==
  /\ settlementState \in {"pending", "error"}
  /\ Len(closeRequests) < MaxCloseRequests
  /\ IF sessionId = NoId
       THEN /\ settlementError' = "missing_session"
            /\ UNCHANGED <<settlementState, settlementDetails, appSessionId, closeRequests,
                           settlement>>
       ELSE IF ~CanSettle
       THEN /\ settlementError' = "only_player_1"
            /\ settlementState' = "error"
            /\ UNCHANGED <<settlementDetails, appSessionId, closeRequests, settlement>>
       ELSE IF IsDemoSession
       THEN /\ settlementError' = "none"
            /\ settlementState' = "success"
            /\ settlementDetails' = SimulatedResult
            /\ UNCHANGED <<appSessionId, closeRequests, settlement>>
       ELSE LET id == IF appSessionId = NoId THEN sessionId ELSE appSessionId
            IN /\ closeRequests' = Append(closeRequests, [by |-> myPlayerNumber, id |-> id])
               /\ IF outcome = "closed"
                    THEN /\ settlement' = Settle(towerHeight, entryFee)
                         /\ appSessionId' = NoId
                         /\ settlementDetails' = RealResult
                         /\ settlementState' = "success"
                         /\ settlementError' = "none"
                    ELSE /\ appSessionId' = id
                         /\ settlementState' = "error"
                         /\ settlementError' = "failed"
                         /\ UNCHANGED <<settlementDetails, settlement>>
  /\ UNCHANGED <<towerHeight, entryFee, preview, sessionId, myPlayerNumber>>

\* The panel as it mounts for a finished game.
UiInit ==
  /\ sessionId \in {NoId, LocalDemoId(1, 1), DemoId(1, 1), AppSessionId(1)}
  /\ myPlayerNumber \in Players
  /\ settlementState = "pending"
  /\ settlementError = "none"
  /\ settlementDetails = NoResult
  /\ appSessionId \in {NoId, AppSessionId(1)}
  /\ closeRequests = <<>>

\* No settlement panel is mounted.
UiIdle ==
  /\ sessionId = NoId
  /\ myPlayerNumber = 1
  /\ settlementState = "pending"
  /\ settlementError = "none"
  /\ settlementDetails = NoResult
  /\ appSessionId = NoId
  /\ closeRequests = <<>>

----------------------------------------------------------------------------
(***************************************************************************)
(* The server: session directory and turn synchronizer.                    *)
(***************************************************************************)
Init == ServerInit /\ SettleIdle /\ NegIdle /\ ClientIdle /\ UiIdle /\ LobbyIdle /\ TurnIdle

Next == ServerNext /\ UNCHANGED <<settleVars, negVars, clientVars, uiVars, lobbyVars, turnVars>>

Spec == Init /\ [][Next]_vars

(***************************************************************************)
(* The settlement calculator applied to every tower height and entry fee.  *)
(***************************************************************************)
SettleInit ==
  /\ ServerInit
  /\ NegIdle
  /\ ClientIdle
  /\ UiIdle
  /\ LobbyIdle
  /\ TurnIdle
  /\ towerHeight \in Heights
  /\ entryFee \in Stakes
  /\ settlement = NoResult
  /\ preview = NoResult

SettleNext == (SettleGameSession \/ CalculatePayouts) /\ UNCHANGED <<serverVars, negVars, clientVars, uiVars, lobbyVars, turnVars>>

SettleSpec == SettleInit /\ [][SettleNext]_vars

(***************************************************************************)
(* The final scores of a session and the result the server computes.       *)
(***************************************************************************)
EndNext == EndEvents /\ UNCHANGED <<settleVars, negVars, clientVars, uiVars, lobbyVars, turnVars>>

EndSpec == Init /\ [][EndNext]_vars

(***************************************************************************)
(* The settlement panel after a finished game.                             *)
(***************************************************************************)
PanelInit ==
  /\ ServerInit
  /\ NegIdle
  /\ ClientIdle
  /\ UiInit
  /\ LobbyIdle
  /\ TurnIdle
  /\ towerHeight \in Heights
  /\ entryFee \in Stakes
  /\ settlement = NoResult
  /\ preview = NoResult

PanelNext ==
  \/ (\E outcome \in CloseOutcomes : HandleSettle(outcome)) /\ UNCHANGED <<serverVars, negVars, clientVars, lobbyVars, turnVars>>
  \/ CalculatePayouts /\ UNCHANGED <<serverVars, negVars, clientVars, uiVars, lobbyVars, turnVars>>

PanelSpec == PanelInit /\ [][PanelNext]_vars

(***************************************************************************)
(* The waiting queues of the session directory.                            *)
(***************************************************************************)
LobbyNext == LobbyEvents /\ UNCHANGED <<settleVars, negVars, clientVars, uiVars, lobbyVars, turnVars>>

LobbySpec == Init /\ [][LobbyNext]_vars

(***************************************************************************)
(* The life of a session up to its end or abandonment.                     *)
(***************************************************************************)
SessionNext == SessionEvents /\ UNCHANGED <<settleVars, negVars, clientVars, uiVars, lobbyVars, turnVars>>

SessionSpec == Init /\ [][SessionNext]_vars

(***************************************************************************)
(* Sessions in play.                                                       *)
(***************************************************************************)
PlayNext == PlayEvents /\ UNCHANGED <<settleVars, negVars, clientVars, uiVars, lobbyVars, turnVars>>

PlaySpec == Init /\ [][PlayNext]_vars

(***************************************************************************)
(* The channel-opening handshake of one session, from game_start on.       *)
(***************************************************************************)
NegotiationInit == ServerInit /\ SettleIdle /\ NegInit /\ ClientIdle /\ UiIdle /\ LobbyIdle /\ TurnIdle

NegNext ==
  \/ NegProgress
  \/ \E c \in Players : WsClose(c) /\ UNCHANGED <<serverVars, settleVars, clientVars, uiVars, lobbyVars, turnVars>>

NegSpec == NegotiationInit /\ [][NegNext]_vars

(***************************************************************************)
(* The handshake together with the countdown it starts and the notice of   *)
(* a disconnected opponent.                                                *)
(***************************************************************************)
CountdownNext ==
  \/ NegNext
  \/ /\ \/ \E c \in Players : CountdownTick(c)
        \/ \E c \in Players : OnGameStart(c)
        \/ \E c \in Players : OpponentDisconnected(c)
     /\ UNCHANGED <<serverVars, settleVars, negVars, clientVars, uiVars, turnVars>>

CountdownSpec == NegotiationInit /\ [][CountdownNext]_vars

(***************************************************************************)
(* The turn flags of the clients against the turn the server grants.       *)
(***************************************************************************)
TurnNext ==
  /\ \/ \E s \in Sockets, m \in Modes : TurnJoin(s, m)
     \/ \E s \in Sockets : ClientReceives(s)
     \/ \E s \in Sockets : ClientEndTurn(s)
     \/ \E s \in Sockets, g \in GameIds : ForeignEndTurn(s, g)
     \/ \E s \in Sockets : ServerHandlesEndTurn(s)
  /\ UNCHANGED <<settleVars, negVars, clientVars, uiVars, lobbyVars>>

TurnSpec == Init /\ [][TurnNext]_vars

(***************************************************************************)
(* A received snapshot applied to a client's world, once and once more.    *)
(***************************************************************************)
WorldInit == ServerInit /\ SettleIdle /\ NegIdle /\ ClientInit /\ UiIdle /\ LobbyIdle /\ TurnIdle

WorldNext ==
  (HandleGameStateSync \/ HandleTurnChanged) /\ UNCHANGED <<serverVars, settleVars, negVars, uiVars, lobbyVars, turnVars>>

WorldSpec == WorldInit /\ [][WorldNext]_vars

----------------------------------------------------------------------------
(***************************************************************************)
(* Vocabulary of the properties of the session directory and the turn      *)
(* synchronizer.                                                           *)
(***************************************************************************)
TurnGated == {"spawn_block", "end_turn", "sync_game_state"}

ParticipantsOf(game) == {game.player1.socketId, game.player2.socketId}

\* The socket of the participant whose turn it is.
HolderSocket(game) ==
  IF game.gameState.currentTurn = 1 THEN game.player1.socketId ELSE game.player2.socketId

\* A session that has neither ended nor been abandoned.
Live(games, g) == g \in DOMAIN games /\ games[g].status \notin {"completed", "abandoned"}

\* s waits in some mode's queue of lobs.
QueuedIn(lobs, s) ==
  \E m \in DOMAIN lobs : \E i \in 1..Len(lobs[m].players) : lobs[m].players[i].socketId = s

\* The turn_changed notifications among the messages msgs.
TurnNotes(msgs) == {msgs[i] : i \in {j \in 1..Len(msgs) : msgs[j].ev = "turn_changed"}}

\* C1: every session a join creates pairs two distinct participants, neither
\* of whom still waits in a queue or belongs to another live session.
C1_PairingIsSound ==
  [][\A g \in DOMAIN activeGames' \ DOMAIN activeGames :
       LET game == activeGames'[g]
       IN /\ game.player1.socketId # game.player2.socketId
          /\ \A p \in ParticipantsOf(game) : ~QueuedIn(lobbies', p)
          /\ \A h \in DOMAIN activeGames :
               Live(activeGames, h) =>
                 ParticipantsOf(activeGames[h]) \cap ParticipantsOf(game) = {}]_vars

\* C4: currentTurn is always 1 or 2, and it changes only in a step that
\* handles an end_turn sent by the participant who holds the turn.
C4_TurnAuthority ==
  [][\A g \in DOMAIN activeGames' :
       /\ activeGames'[g].gameState.currentTurn \in {1, 2}
       /\ (/\ g \in DOMAIN activeGames
           /\ activeGames'[g].gameState.currentTurn # activeGames[g].gameState.currentTurn)
          => /\ recv'.ev = "end_turn"
             /\ recv'.gameId = g
             /\ recv'.from = HolderSocket(activeGames[g])]_vars

\* C5: an end_turn sent by the participant who holds the turn gives the turn
\* to the other participant and adds exactly one to turnCount; turnCount
\* never decreases.
C5_EndTurnFlips ==
  [][\A g \in DOMAIN activeGames :
       /\ (recv'.ev = "end_turn" /\ recv'.gameId = g
           /\ recv'.from = HolderSocket(activeGames[g]))
          => /\ activeGames'[g].gameState.currentTurn
                  = 3 - activeGames[g].gameState.currentTurn
             /\ activeGames'[g].gameState.turnCount
                  = activeGames[g].gameState.turnCount + 1
       /\ g \in DOMAIN activeGames'
          => activeGames'[g].gameState.turnCount >= activeGames[g].gameState.turnCount]_vars

\* C6: a spawn_block, end_turn or sync_game_state sent by the participant who
\* does not hold the turn leaves blocks, spawnedBlocks, currentTurn and
\* turnCount unchanged and sends nothing to anyone but the caller.
C6_NonHolderRejected ==
  [][\A g \in DOMAIN activeGames :
       (/\ recv'.ev \in TurnGated
        /\ recv'.gameId = g
        /\ recv'.from \in ParticipantsOf(activeGames[g])
        /\ recv'.from # HolderSocket(activeGames[g]))
       => /\ activeGames'[g].gameState = activeGames[g].gameState
          /\ \A i \in 1..Len(sent') : sent'[i].to = recv'.from]_vars

\* C6 witness: the server has just answered a spawn_block of the participant
\* who does not hold the turn with the error signal.
C6_Witness ==
  /\ recv.ev = "spawn_block"
  /\ recv.gameId \in DOMAIN activeGames
  /\ LET game == activeGames[recv.gameId]
     IN /\ game.player1.socketId # game.player2.socketId
        /\ recv.from \in ParticipantsOf(game)
        /\ recv.from # HolderSocket(game)
        /\ game.gameState.turnCount > 0
  /\ sent = <<[to |-> recv.from, ev |-> "error"]>>

\* C7: after an accepted end_turn of the turn holder the stored blocks are the
\* supplied snapshot, and every connected participant is sent a turn_changed
\* with that snapshot, the new holder and the new turn count, whose isYourTurn
\* is true exactly when the recipient is the new holder.
C7_EndTurnSnapshot ==
  [][\A g \in DOMAIN activeGames :
       (/\ recv'.ev = "end_turn"
        /\ recv'.gameId = g
        /\ recv'.from = HolderSocket(activeGames[g])
        /\ activeGames'[g].gameState.currentTurn # activeGames[g].gameState.currentTurn)
       => LET new == activeGames'[g]
              notes == TurnNotes(sent')
          IN /\ new.gameState.blocks = recv'.data
             /\ \A p \in ParticipantsOf(new) \cap connected : \E n \in notes : n.to = p
             /\ \A n \in notes :
                  /\ n.to \in ParticipantsOf(new)
                  /\ n.blockStates = recv'.data
                  /\ n.currentTurn = new.gameState.currentTurn
                  /\ n.turnCount = new.gameState.turnCount
                  /\ n.isYourTurn <=> (n.to = HolderSocket(new))]_vars

\* C26: every spawn_block, end_turn or sync_game_state that is rejected because
\* its caller does not hold the turn sends the error signal to the caller; no
\* such rejection is silent.
C26_RejectionSignalled ==
  [][\A g \in DOMAIN activeGames :
       (/\ recv'.ev \in TurnGated
        /\ recv'.gameId = g
        /\ recv'.from # HolderSocket(activeGames[g])
        /\ NotYourTurn(activeGames[g], PlayerNumber(activeGames[g], recv'.from)))
       => \E i \in 1..Len(sent') : sent'[i] = [to |-> recv'.from, ev |-> "error"]]_vars

----------------------------------------------------------------------------
(***************************************************************************)
(* Properties of sessions in play (checked under PlaySpec).                *)
(***************************************************************************)
\* C27: a sync_block_position is relayed only when its sender holds the turn
\* of the session, and then to the peer only; it never changes the stored
\* blocks, the turn holder or the turn counter.
C27_InFlightFromHolderOnly ==
  [][\A g \in DOMAIN activeGames :
       (recv'.ev = "sync_block_position" /\ recv'.gameId = g) =>
         /\ activeGames'[g] = activeGames[g]
         /\ sent' # <<>> => recv'.from = HolderSocket(activeGames[g])
         /\ \A i \in 1..Len(sent') :
              sent'[i].to \in ParticipantsOf(activeGames[g]) \ {recv'.from}]_vars

\* C28: an accepted spawn_block appends exactly one entry to the stored
\* blocks, whose identifier differs from that of every entry already stored,
\* adds exactly one to spawnedBlocks, leaves the turn holder and the turn
\* counter unchanged and broadcasts the new entry only; also when the relay
\* delivers the same spawn message more than once.
C28_SpawnAppendsFreshEntry ==
  [][\A g \in DOMAIN activeGames :
       (/\ recv'.ev = "spawn_block"
        /\ recv'.gameId = g
        /\ ~NotYourTurn(activeGames[g], PlayerNumber(activeGames[g], recv'.from)))
       => LET old == activeGames[g].gameState
              new == activeGames'[g].gameState
          IN /\ new.blocks = Append(old.blocks, recv'.data[1])
             /\ \A i \in 1..Len(old.blocks) : old.blocks[i].syncId # recv'.data[1].syncId
             /\ new.spawnedBlocks = old.spawnedBlocks + 1
             /\ new.currentTurn = old.currentTurn
             /\ new.turnCount = old.turnCount
             /\ \A i \in 1..Len(sent') :
                  sent'[i].ev = "block_spawned" /\ sent'[i].block = recv'.data[1]]_vars

\* The operations on a session in play.
SessionOps == TurnGated \cup {"update_score", "game_end"}

\* C29: a spawn_block, end_turn, sync_game_state, update_score or game_end
\* sent by a connection that is neither player of the addressed session
\* leaves the session (blocks, turn holder, turn counter, scores, status)
\* unchanged and is relayed to nobody.
C29_OnlyParticipantsMutate ==
  [][\A g \in DOMAIN activeGames :
       (/\ recv'.ev \in SessionOps
        /\ recv'.gameId = g
        /\ recv'.from \notin ParticipantsOf(activeGames[g]))
       => /\ activeGames'[g] = activeGames[g]
          /\ \A i \in 1..Len(sent') : sent'[i].to = recv'.from]_vars

\* C30: once a session is completed or abandoned, spawn_block, end_turn and
\* sync_game_state no longer change its blocks, its turn holder or its turn
\* counter.
C30_EndedIsFrozen ==
  [][\A g \in DOMAIN activeGames :
       (/\ activeGames[g].status \in {"completed", "abandoned"}
        /\ recv'.ev \in TurnGated
        /\ recv'.gameId = g)
       => /\ g \in DOMAIN activeGames'
          /\ activeGames'[g].gameState.blocks = activeGames[g].gameState.blocks
          /\ activeGames'[g].gameState.currentTurn = activeGames[g].gameState.currentTurn
          /\ activeGames'[g].gameState.turnCount = activeGames[g].gameState.turnCount]_vars

----------------------------------------------------------------------------
(***************************************************************************)
(* Properties of the settlement calculator (checked under SettleSpec).     *)
(***************************************************************************)
\* The results computed so far.
Computed == {r \in {settlement, preview} : r # NoResult}

\* The threshold the tier selection is meant to pick for height h: the
\* highest minHeight that is <= h, and the lowest tier's when there is none.
IntendedThreshold(h) ==
  LET below == {REWARD_TIERS[i].minHeight : i \in {j \in 1..Len(REWARD_TIERS) :
                                                    REWARD_TIERS[j].minHeight <= h}}
  IN IF below = {} THEN 0 ELSE CHOOSE t \in below : \A u \in below : u <= t

\* C8: the split is exact: the two payouts and the protocol fee add up to
\* totalRewards = floor(2 * stake * multiplier).
C8_SplitIsExact ==
  \A r \in Computed :
    /\ r.totalRewards
         = (2 * entryFee * r.rewardTier.multiplier[1] * 100)
             \div (r.rewardTier.multiplier[2] * 100)
    /\ r.player1Payout + r.player2Payout + r.protocolFee = r.totalRewards

\* C9: the tier chosen for height h is the one with the highest threshold
\* <= h; every h <= 0 gets the lowest tier (threshold 0, multiplier 1.0), and
\* for h < 0 the settlement equals the settlement of height 0.
C9_TierSelection ==
  \A r \in Computed :
    /\ r.rewardTier.minHeight = IntendedThreshold(towerHeight)
    /\ \E i \in 1..Len(REWARD_TIERS) : r.rewardTier = REWARD_TIERS[i]
    /\ towerHeight <= 0
         => r.rewardTier.minHeight = 0 /\ r.rewardTier.multiplier = <<10, 10>>
    /\ towerHeight < 0
         => LET z == Settle(0, entryFee)
            IN /\ r.rewardTier = z.rewardTier
               /\ r.player1Payout = z.player1Payout
               /\ r.player2Payout = z.player2Payout
               /\ r.protocolFee = z.protocolFee

\* C9 witness: a negative tower height has been settled.
C9_Witness == settlement # NoResult /\ towerHeight < 0 /\ entryFee > 0

----------------------------------------------------------------------------
(***************************************************************************)
(* Properties of a session's end and abandonment (checked under            *)
(* SessionSpec).                                                           *)
(***************************************************************************)
\* The sockets that are sent event ev about game g among the messages msgs.
Recipients(msgs, ev, g) ==
  {msgs[i].to : i \in {j \in 1..Len(msgs) :
      /\ msgs[j].ev = ev
      /\ IF ev = "game_result" THEN msgs[j].result.gameId = g ELSE msgs[j].gameId = g}}

\* C11: once a session is abandoned (a participant disconnected before its
\* end) it stays abandoned: no later event makes it completed, and no result
\* is computed or emitted for it.
C11_AbandonedIsFinal ==
  [][\A g \in GameIds :
       (g \in DOMAIN activeGames /\ activeGames[g].status = "abandoned") =>
         /\ g \in DOMAIN activeGames'
         /\ activeGames'[g].status = "abandoned"
         /\ activeGames'[g].result = activeGames[g].result
         /\ Recipients(sent', "game_result", g) = {}]_vars

\* C12: when a participant of a session that has not ended disconnects, every
\* such session becomes abandoned in that step and exactly its remaining
\* participant is sent opponent_disconnected.
C12_DisconnectAbandons ==
  [][recv'.ev = "disconnect" =>
       \A g \in DOMAIN activeGames :
         (Live(activeGames, g) /\ recv'.from \in ParticipantsOf(activeGames[g])) =>
           /\ activeGames'[g].status = "abandoned"
           /\ Recipients(sent', "opponent_disconnected", g)
                = ParticipantsOf(activeGames[g]) \ {recv'.from}]_vars

\* C17: an end-of-session submission by a participant who has already
\* submitted changes nothing in the session (metric, status) and no result is
\* emitted.
C17_SubmitOnce ==
  [][(recv'.ev = "game_end" /\ recv'.gameId \in DOMAIN activeGames) =>
       LET g == recv'.gameId
           game == activeGames[g]
           already == \/ SlotOf(game, recv'.from) = 1 /\ game.player1.finished
                      \/ SlotOf(game, recv'.from) = 2 /\ game.player2.finished
       IN already => /\ activeGames'[g] = game
                     /\ Recipients(sent', "game_result", g) = {}]_vars

\* The event handled next is the submission that makes both participants of
\* game g have submitted.
SecondSubmission(g) ==
  LET game == activeGames[g]
  IN /\ recv'.ev = "game_end" /\ recv'.gameId = g
     /\ game.player1.socketId # game.player2.socketId
     /\ \/ SlotOf(game, recv'.from) = 1 /\ ~game.player1.finished /\ game.player2.finished
        \/ SlotOf(game, recv'.from) = 2 /\ ~game.player2.finished /\ game.player1.finished

\* C18: a result is emitted, and the session is completed, only when two
\* distinct participants have submitted; the step that handles the second
\* participant's submission completes the session and emits the result to
\* both participants.
C18_ResultWhenBothSubmitted ==
  [][\A g \in DOMAIN activeGames :
       /\ (\/ Recipients(sent', "game_result", g) # {}
           \/ g \in DOMAIN activeGames' /\ activeGames'[g].status = "completed") =>
            /\ g \in DOMAIN activeGames'
            /\ activeGames'[g].player1.finished /\ activeGames'[g].player2.finished
            /\ activeGames[g].player1.socketId # activeGames[g].player2.socketId
       /\ SecondSubmission(g) =>
            /\ activeGames'[g].status = "completed"
            /\ Recipients(sent', "game_result", g) = ParticipantsOf(activeGames[g])]_vars

\* C22: a session that becomes abandoned is evicted from activeGames in the
\* step of the disconnect that abandoned it: after any step no stored session
\* is abandoned, and the session a disconnect abandons is gone.
C22_AbandonedIsEvicted ==
  [][/\ \A g \in DOMAIN activeGames' : activeGames'[g].status # "abandoned"
     /\ recv'.ev = "disconnect" =>
          \A g \in DOMAIN activeGames :
            (/\ Live(activeGames, g)
             /\ recv'.from \in DOMAIN playerSockets
             /\ playerSockets[recv'.from].gameId = g) => g \notin DOMAIN activeGames']_vars

----------------------------------------------------------------------------
(***************************************************************************)
(* Properties of the waiting queues (checked under LobbySpec).             *)
(***************************************************************************)
\* The queue entries of socket s, as <<mode, position>>.
EntriesOf(lobs, s) ==
  {e \in UNION {{<<m, i>> : i \in 1..Len(lobs[m].players)} : m \in DOMAIN lobs} :
     lobs[e[1]].players[e[2]].socketId = s}

QueueOf(lobs, m) == IF m \in DOMAIN lobs THEN lobs[m].players ELSE <<>>

\* C13: a participant appears in at most one waiting queue, and at most once.
C13_OneQueueEntry == \A s \in Sockets : Cardinality(EntriesOf(lobbies, s)) <= 1

\* C14: every queue holds at most one participant, and a join for a mode
\* whose queue is not empty dequeues its longest-waiting entry and pairs the
\* joiner with it in the same step.
C14_NoOneLeftWaiting ==
  [][/\ \A m \in DOMAIN lobbies' : Len(lobbies'[m].players) <= 1
     /\ \A m \in DirModes :
          (recv'.ev = "join_lobby" /\ recv'.data = <<m>> /\ QueueOf(lobbies, m) # <<>>) =>
            /\ QueueOf(lobbies', m) = Tail(QueueOf(lobbies, m))
            /\ \E g \in DOMAIN activeGames' \ DOMAIN activeGames :
                 /\ activeGames'[g].player1.socketId = Head(QueueOf(lobbies, m)).socketId
                 /\ activeGames'[g].player2.socketId = recv'.from]_vars

\* A join found a waiting participant and was paired with it.
C14_Witness ==
  /\ recv.ev = "join_lobby"
  /\ \E g \in DOMAIN activeGames :
       /\ activeGames[g].player2.socketId = recv.from
       /\ activeGames[g].player1.socketId # recv.from
       /\ QueueOf(lobbies, activeGames[g].modeId) = <<>>

\* C15: leaveLobby(mode, p) removes p's entries from that mode's queue and
\* nothing else, raises no error, and a second call in a row changes nothing.
C15_LeaveLobby ==
  [][recv'.ev = "leave_lobby" =>
       LET p == recv'.from
           m == recv'.data[1]
       IN /\ DOMAIN lobbies' = DOMAIN lobbies
          /\ \A m2 \in DOMAIN lobbies :
               lobbies'[m2].players =
                 IF m2 = m THEN SelectSeq(lobbies[m2].players, LAMBDA e : e.socketId # p)
                 ELSE lobbies[m2].players
          /\ \A i \in 1..Len(sent') : sent'[i].ev # "error"
          /\ (recv.ev = "leave_lobby" /\ recv.from = p /\ recv.data = <<m>>) =>
               lobbies' = lobbies]_vars

\* A waiting participant has just left the queue it waited in.
C15_Witness ==
  /\ recv.ev = "leave_lobby"
  /\ recv.from \in DOMAIN playerSockets
  /\ playerSockets[recv.from] = [modeId |-> recv.data[1], gameId |-> NoGame]
  /\ QueueOf(lobbies, recv.data[1]) = <<>>
  /\ recv.data[1] \in DOMAIN lobbies
  /\ \E s \in Sockets \ {recv.from} : QueuedIn(lobbies, s)

\* C23: right after a sweep every remaining lobby is non-empty and holds only
\* entries younger than the staleness threshold; the sweep drops no younger
\* entry and leaves the sessions alone.
C23_SweepKeepsFresh ==
  [][recv'.ev = "sweep" =>
       LET cutoff == recv'.data[1]
           young(m) == SelectSeq(lobbies[m].players, LAMBDA e : e.joinedAt > cutoff)
       IN /\ \A m \in DOMAIN lobbies' :
               /\ lobbies'[m].players # <<>>
               /\ \A i \in 1..Len(lobbies'[m].players) : lobbies'[m].players[i].joinedAt > cutoff
          /\ DOMAIN lobbies' \subseteq DOMAIN lobbies
          /\ \A m \in DOMAIN lobbies :
               young(m) # <<>> => m \in DOMAIN lobbies' /\ lobbies'[m].players = young(m)
          /\ activeGames' = activeGames
          /\ playerSockets' = playerSockets
          /\ rooms' = rooms]_vars

\* A sweep has just dropped the stale entry of one mode, with its lobby, and
\* kept the younger entry of the other mode.
C23_Witness ==
  /\ recv.ev = "sweep"
  /\ recv.data = <<0>>
  /\ events = 3
  /\ \E m \in DirModes, s \in Sockets :
       /\ DOMAIN lobbies = {m}
       /\ lobbies[m].players = <<[socketId |-> s, joinedAt |-> 1]>>
       /\ \E t \in DOMAIN playerSockets : playerSockets[t].modeId \notin DOMAIN lobbies

\* The game_start notifications among the messages msgs.
GameStarts(msgs) == {msgs[i] : i \in {j \in 1..Len(msgs) : msgs[j].ev = "game_start"}}

\* C31: the session a join creates starts with status starting, no blocks,
\* turn counter 0 and player 1 as turn holder; player 1 is the participant
\* that waited in the queue and player 2 the joiner; player 1's game_start
\* carries isYourTurn = true and is the only one that does, player 2's carries
\* false, and both carry the session's id and its initial state.
C31_SessionStartsWithPlayerOne ==
  [][\A g \in DOMAIN activeGames' \ DOMAIN activeGames :
       LET game == activeGames'[g]
           starts == GameStarts(sent')
           toPlayer(n) == {m \in starts : m.playerNumber = n}
       IN /\ recv'.ev = "join_lobby"
          /\ game.status = "starting"
          /\ game.gameState.blocks = <<>>
          /\ game.gameState.turnCount = 0
          /\ game.gameState.currentTurn = 1
          /\ game.player1.socketId = Head(QueueOf(lobbies, recv'.data[1])).socketId
          /\ game.player2.socketId = recv'.from
          /\ \A m \in starts :
               /\ m.gameId = g
               /\ m.gameState = game.gameState
               /\ m.playerNumber \in {1, 2}
               /\ m.to = (IF m.playerNumber = 1 THEN game.player1.socketId
                          ELSE game.player2.socketId)
               /\ m.isYourTurn <=> (m.playerNumber = 1)
          /\ Cardinality(toPlayer(2)) = 1
          /\ Cardinality(toPlayer(1)) = (IF game.player1.socketId \in connected THEN 1 ELSE 0)]_vars

\* A join has just paired two distinct participants, and each was sent its
\* game_start.
C31_Witness ==
  /\ recv.ev = "join_lobby"
  /\ \E g \in DOMAIN activeGames :
       LET game == activeGames[g]
       IN /\ game.player2.socketId = recv.from
          /\ game.player1.socketId # recv.from
          /\ game.gameState = [blocks |-> <<>>, currentTurn |-> 1, turnCount |-> 0,
                                spawnedBlocks |-> 0]
          /\ \E a, b \in GameStarts(sent) :
               /\ a.to = game.player1.socketId /\ a.isYourTurn /\ a.gameId = g
               /\ b.to = game.player2.socketId /\ ~b.isYourTurn /\ b.gameId = g

\* C16: a participant whose disconnection has been processed waits in no queue.
C16_DisconnectedNotQueued == \A s \in Sockets \ connected : ~QueuedIn(lobbies, s)

----------------------------------------------------------------------------
(***************************************************************************)
(* Properties of the channel-opening handshake (checked under NegSpec).    *)
(***************************************************************************)
Started(c) == countdownStartedRef[c]

\* Nothing is left to happen in the handshake.
NegQuiescent == ~ENABLED NegProgress

\* C2: whenever both clients have started the game, they started it with the
\* identical channel identifier, hence in the same mode (both real or both
\* simulated).
C2_SameIdentifier ==
  (\A c \in Players : Started(c)) =>
    /\ stateChannelSessionId[1] = stateChannelSessionId[2]
    /\ stateChannelSessionId[1].kind = stateChannelSessionId[2].kind

\* C3: once game_start has reached both clients, no client is left waiting:
\* when nothing is left to happen in the handshake, each client has started
\* its countdown with a ledger-issued or a fallback identifier.
C3_NegotiationTerminates ==
  NegQuiescent =>
    \A c \in Players : Started(c) /\ stateChannelSessionId[c].kind \in {"real", "demo"}

\* C19: the participant that is not the proposer never creates a proposal and
\* never submits to the ledger service; all it does in the handshake is
\* answer a received proposal with a signature or a signing failure, and
\* adopt an identifier the proposer has broadcast.
C19_PeerOnlyResponds ==
  /\ ~pendingProposalRef[Peer(Proposer)].present
  /\ pendingRequests[Peer(Proposer)] = 0
  /\ \A i \in 1..Len(negLog) :
       negLog[i].by = Peer(Proposer) =>
         /\ negLog[i].act \in {"sign", "sign_failed", "adopt"}
         /\ negLog[i].act = "adopt" =>
              \E j \in 1..(i - 1) :
                /\ negLog[j].act = "broadcast"
                /\ negLog[j].by = Proposer
                /\ negLog[j].id = negLog[i].id

\* q extends p: the same list, possibly with more elements at its end.
Extends(q, p) == Len(q) >= Len(p) /\ SubSeq(q, 1, Len(p)) = p

\* C20: a created proposal keeps its definition and its allocation amounts,
\* its signature list only grows and starts with the proposer's signature
\* alone, and what is submitted to the ledger service carries exactly two
\* signatures, the proposer's followed by the peer's.
C20_ProposalImmutable ==
  [][/\ \A c \in Players :
          (pendingProposalRef[c].present /\ pendingProposalRef'[c].present) =>
            /\ pendingProposalRef'[c].participants = pendingProposalRef[c].participants
            /\ pendingProposalRef'[c].amounts = pendingProposalRef[c].amounts
            /\ Extends(pendingProposalRef'[c].sig, pendingProposalRef[c].sig)
     /\ \A i \in 1..Len(negLog') :
          /\ negLog'[i].act = "create" => negLog'[i].proposal.sig = <<negLog'[i].by>>
          /\ negLog'[i].act = "submit" =>
               /\ negLog'[i].proposal.sig = <<negLog'[i].by, Peer(negLog'[i].by)>>
               /\ \E j \in 1..(i - 1) :
                    /\ negLog'[j].act = "create"
                    /\ negLog'[j].proposal.participants = negLog'[i].proposal.participants
                    /\ negLog'[j].proposal.amounts = negLog'[i].proposal.amounts]_vars

----------------------------------------------------------------------------
(***************************************************************************)
(* Properties of the snapshots applied to a client's world (checked under  *)
(* WorldSpec).                                                             *)
(***************************************************************************)
\* The identifiers and poses of the blocks of world w.
PosesOf(w) ==
  {[syncId |-> w[i].syncId, x |-> w[i].x, y |-> w[i].y, angle |-> w[i].angle] :
     i \in {j \in 1..Len(w) : ~w[j].isStatic}}

\* The world after the i-th application of the snapshot.
WorldAfter(i) == IF i < Len(applied) THEN worldLog[i + 1] ELSE world

TimeoutExpires ==
  /\ timerArmed[Proposer] /\ ~timerArmed'[Proposer]
  /\ pendingProposalRef[Proposer].present
  /\ ~Started(Proposer)

\* id was broadcast by the proposer's timeout.
TimeoutId(id) ==
  \E i \in 1..(Len(negLog) - 1) :
    /\ negLog[i].act = "signature_timeout"
    /\ negLog[i + 1].act = "broadcast"
    /\ negLog[i + 1].id = id

\* C24: when the 15 s window expires with the proposal sent and the
\* negotiation unresolved, the proposer fabricates a placeholder identifier,
\* broadcasts it to the peer and starts its game with it; the peer, when it
\* receives that identifier, starts its game with it.
C24_TimeoutFallsBack ==
  [][/\ TimeoutExpires =>
          \E d \in {DemoId(Proposer, clock)} :
            /\ countdownStartedRef'[Proposer]
            /\ stateChannelSessionId'[Proposer] = d
            /\ inbox'[Peer(Proposer)]
                 = Append(inbox[Peer(Proposer)], [ev |-> "session_ready", payload |-> d])
     /\ LET p == Peer(Proposer)
        IN (/\ Arrived(p, "session_ready")
            /\ inbox'[p] = Tail(inbox[p])
            /\ TimeoutId(Head(inbox[p]).payload)) =>
             /\ countdownStartedRef'[p]
             /\ stateChannelSessionId'[p] = Head(inbox[p]).payload]_vars

\* The steps logged in this step.
NewSteps == SubSeq(negLog', Len(negLog) + 1, Len(negLog'))

\* The last of the steps q is a broadcast by the proposer of an identifier of
\* the given kind, and the peer is sent that identifier in this step.
BroadcastsToPeer(q, kind) ==
  /\ q # <<>>
  /\ LET b == q[Len(q)]
         last == IF b.act = "start" /\ Len(q) > 1 THEN q[Len(q) - 1] ELSE b
     IN /\ last.act = "broadcast"
        /\ last.by = Proposer
        /\ last.id.kind = kind
        /\ inbox'[Peer(Proposer)] # <<>>
        /\ inbox'[Peer(Proposer)][Len(inbox'[Peer(Proposer)])]
             = [ev |-> "session_ready", payload |-> last.id]

\* C25: the proposer that receives the peer's reply while it holds a pending
\* proposal broadcasts an identifier to the peer whatever happens: the
\* ledger-issued one when the submission succeeds, a placeholder when the peer
\* reported a signing failure, when the submission throws or times out, or
\* when the ledger returns no identifier; a submission is either still
\* awaiting its answer (or its 30 s timeout) or followed by a broadcast.
C25_AlwaysBroadcasts ==
  [][/\ \A i \in 1..Len(NewSteps) :
          /\ (NewSteps[i].act = "peer_failed" /\ NewSteps[i].proposal.present)
               => BroadcastsToPeer(NewSteps, "demo")
          /\ NewSteps[i].act \in {"submit_failed", "no_id", "error", "timeout"}
               => BroadcastsToPeer(NewSteps, "demo")
          /\ NewSteps[i].act = "issued" => BroadcastsToPeer(NewSteps, "real")
     /\ \A i \in 1..Len(negLog') :
          negLog'[i].act = "submit" =>
            \/ pendingRequests'[Proposer] > 0
            \/ \E j \in (i + 1)..Len(negLog') :
                 negLog'[j].act = "broadcast" /\ negLog'[j].by = Proposer]_vars

\* The ledger answered a co-signed submission without an identifier, the
\* proposer broadcast a placeholder and the peer started with it.
C25_Witness ==
  \E i \in 1..Len(negLog) : \E j \in (i + 1)..Len(negLog) :
    /\ negLog[i].act = "submit"
    /\ negLog[j].act = "no_id"
    /\ j + 1 <= Len(negLog)
    /\ negLog[j + 1].act = "broadcast"
    /\ negLog[j + 1].id.kind = "demo"
    /\ stateChannelSessionId[Peer(Proposer)] = negLog[j + 1].id

\* C32: a close request goes to the ledger only from player 1 and only for a
\* session whose identifier is not a placeholder; player 2 asking to settle a
\* real session is refused with an error and no request is sent; whoever asks
\* to settle a placeholder session gets a simulated settlement and no request
\* is sent.
C32_OnlyPlayerOneSettlesOnLedger ==
  [][uiVars' # uiVars =>
       /\ closeRequests' # closeRequests =>
            /\ myPlayerNumber = 1
            /\ sessionId.kind = "real"
            /\ settlementState' \in {"success", "error"}
       /\ (myPlayerNumber = 2 /\ sessionId.kind = "real") =>
            /\ closeRequests' = closeRequests
            /\ settlementState' = "error"
            /\ settlementError' = "only_player_1"
            /\ settlementDetails' = NoResult
       /\ sessionId.kind = "demo" =>
            /\ closeRequests' = closeRequests
            /\ settlementState' = "success"
            /\ settlementDetails'.demo
            /\ settlement' = NoResult]_vars

\* Player 1 has settled a real session on the ledger.
C32_Witness ==
  /\ myPlayerNumber = 1
  /\ sessionId.kind = "real"
  /\ Len(closeRequests) = 1
  /\ settlementState = "success"
  /\ ~settlementDetails.demo

\* The results of the sessions that both players have ended.
Results == {activeGames[g].result[1] : g \in {h \in DOMAIN activeGames : activeGames[h].result # NoData}}

\* C33: every game_result takes a fee of exactly 2% of the pot of two bets;
\* each payout lies between 0 and the pot less the fee and is the player's
\* share of the total score of it, to the thousandth, when the total is above
\* 0 and half of it when the total is 0; the two payouts and the fee together
\* do not exceed the pot.
C33_PayoutsWithinPot ==
  \A r \in Results :
    LET pot == 2 * BET_AMOUNT
        distributable == pot - r.fee
        total == r.player1.score + r.player2.score
        isShare(p) ==
          IF total = 0 THEN 2 * p.payout = distributable
          ELSE IF total < 0 THEN TRUE
          ELSE /\ p.payout * total <= distributable * p.score
               /\ (p.payout * total + (distributable * total) \div 1000) >= distributable * p.score
    IN /\ r.fee * 100 = pot * 2
       /\ \A p \in {r.player1, r.player2} :
            /\ 0 <= p.payout
            /\ p.payout <= distributable
            /\ isShare(p)
       /\ r.player1.payout + r.player2.payout + r.fee <= pot

\* C34: a lobby client that has been told that its opponent disconnected
\* keeps showing the notice and does not enter the game: onGameStart is not
\* invoked for it afterwards, not even by a countdown that was already running.
C34_NoStartAfterDisconnect ==
  [][\A c \in Players :
       lobbyStatus[c] = "error" =>
         /\ lobbyStatus'[c] = "error"
         /\ gameEntered'[c] = gameEntered[c]]_vars

\* The proposer has fallen back to a placeholder because its 15 s window expired.
FellBackOnTimeout == \E i \in 1..Len(negLog) : negLog[i].act = "signature_timeout"

\* The proposer handles the peer's reply (a signature or a signing failure) in
\* this step.
HandlesPeerReply ==
  /\ Arrived(Proposer, "session_signature_received")
  /\ inbox'[Proposer] # inbox[Proposer]
  /\ Len(inbox'[Proposer]) <= Len(inbox[Proposer])
  /\ Extends(inbox'[Proposer], Tail(inbox[Proposer]))

\* C35: once the proposer has fallen back because the signature timeout fired,
\* a reply of the peer that arrives afterwards causes no submission to the
\* ledger, no further broadcast of an identifier and no further game start.
C35_LateReplyIsIgnored ==
  [][(FellBackOnTimeout /\ HandlesPeerReply) =>
       /\ pendingRequests' = pendingRequests
       /\ inbox'[Peer(Proposer)] = inbox[Peer(Proposer)]
       /\ stateChannelSessionId' = stateChannelSessionId
       /\ \A i \in 1..Len(NewSteps) : NewSteps[i].act \notin {"submit", "broadcast", "start"}]_vars

\* C36: when the ledger service has issued an identifier for the session, the
\* proposer has started its game under that identifier and has broadcast no
\* other identifier; so a session with a channel opened on the ledger is never
\* played under a placeholder.
C36_IssuedIdentifierIsUsed ==
  \A i \in 1..Len(negLog) :
    negLog[i].act = "issued" =>
      /\ Started(Proposer)
      /\ stateChannelSessionId[Proposer] = negLog[i].id
      /\ \A j \in 1..Len(negLog) :
           (negLog[j].act = "broadcast" /\ negLog[j].by = Proposer) => negLog[j].id = negLog[i].id

\* The submissions of a co-signed proposal to the ledger service so far.
Submissions == {i \in 1..Len(negLog) : negLog[i].act = "submit"}

\* C37: in one session the proposer submits its co-signed proposal to the
\* ledger service at most once, also when the peer's signature is delivered
\* more than once or again while the first submission awaits its answer.
C37_SubmitsAtMostOnce == Cardinality(Submissions) <= 1

\* C38: the two clients of a session never both hold isMyTurn = true, and a
\* client that holds isMyTurn = true for a session is the player whose turn
\* it is on the server.
C38_TurnFlagsAgree ==
  \A g \in DOMAIN activeGames :
    LET game == activeGames[g]
        holds(s) == currentGameId[s] = g /\ isMyTurn[s]
    IN /\ game.player1.socketId # game.player2.socketId =>
            ~(holds(game.player1.socketId) /\ holds(game.player2.socketId))
       /\ \A s \in {game.player1.socketId, game.player2.socketId} :
            holds(s) => game.gameState.currentTurn = clientPlayerNumber[s]

\* a / b <= c / d for the multipliers <<a, b>> and <<c, d>>
MultiplierLeq(m, n) == m[1] * n[2] <= n[1] * m[2]

\* C39: for a fixed stake the tier multiplier, the protocol fee and the payout
\* of each participant do not decrease when the achieved height grows: the
\* settlement of any lower height gives no more than the one computed.
C39_PayoutMonotone ==
  \A r \in Computed :
    \A h \in {k \in Heights : k <= towerHeight} :
      LET lower == Settle(h, entryFee)
      IN /\ MultiplierLeq(lower.rewardTier.multiplier, r.rewardTier.multiplier)
         /\ lower.protocolFee <= r.protocolFee
         /\ lower.player1Payout <= r.player1Payout
         /\ lower.player2Payout <= r.player2Payout

\* A height of a higher tier has been settled and pays more than height 0.
C39_Witness ==
  /\ settlement # NoResult
  /\ towerHeight >= 200
  /\ entryFee > 0
  /\ settlement.player1Payout > Settle(0, entryFee).player1Payout
  /\ settlement.protocolFee > Settle(100, entryFee).protocolFee

====
